---- MODULE Spec2Model ----
(***************************************************************************)
(* Flow validator of sf-flow (hooks/scripts/validate_flow.py): the element *)
(* graph of a flow document, the loop-body walkers (_has_dml_in_path,      *)
(* _has_soql_in_path, _has_action_in_path), the loop detectors built on    *)
(* them, the recursive after-save update check and the orphaned-element    *)
(* check.                                                                  *)
(*                                                                         *)
(* A flow document is written or edited (the Write / Edit tool), and the   *)
(* post-tool hook then builds an EnhancedFlowValidator on the file and     *)
(* runs validate().  Every action below is one such edit followed by the   *)
(* validation of the edited document.                                      *)
(***************************************************************************)
EXTENDS Integers, Sequences, FiniteSets, TLC

(***************************************************************************)
(* Bounds of the model.                                                    *)
(***************************************************************************)
\* Element names a document may use (a targetReference may name any of
\* them, declared or not).
NameOrder == <<"e1", "e2", "e3">>

Names == {NameOrder[i] : i \in DOMAIN NameOrder}

\* Largest number of connector targets (targetReference nodes) in a document.
MaxConnectors == 3

\* Largest number of <rules> children of one decision.
MaxRules == 1

\* Largest number of <filters> children of the start element.
MaxFilters == 1

\* Deepest nesting of _has_dml_in_path calls the interpreter allows before
\* it raises RecursionError (sys.getrecursionlimit(), scaled down).
RecursionLimit == 5

\* Python's None: the XML child is absent.
NONE == "None"

Targets == Names \cup {NONE}

\* element_types of _build_element_map and _check_unconnected_elements.
element_types ==
    <<"assignments", "decisions", "recordCreates", "recordUpdates",
      "recordDeletes", "recordLookups", "loops", "subflows", "screens",
      "actionCalls", "waits", "transforms">>

\* The element types the modelled editor writes in each specification.
AuthoredTypes ==
    {"assignments", "decisions", "recordCreates", "recordUpdates",
     "recordDeletes", "recordLookups", "loops", "actionCalls"}

OrphanSpecTypes == {"assignments", "decisions", "recordCreates", "loops"}

WalkSpecTypes == {"assignments", "decisions", "recordCreates", "loops"}

\* Position of a type in element_types.
TypeIndex(t) == CHOOSE i \in DOMAIN element_types : element_types[i] = t

Range(s) == {s[i] : i \in DOMAIN s}

(***************************************************************************)
(* The parsed document (self.root).                                        *)
(***************************************************************************)
\* One flow element as the validator reads it: its tag (type) and the
\* targetReference of each connector child; rules holds, per <rules> child,
\* the target of its connector (NONE when the rule has no connector).
NewElement(t) ==
    [type |-> t,
     connector |-> NONE,
     faultConnector |-> NONE,
     rules |-> <<>>,
     defaultConnector |-> NONE,
     nextValueConnector |-> NONE,
     noMoreValuesConnector |-> NONE,
     object |-> NONE,
     inputReference |-> NONE]

\* The <start> element: its connector and the record-trigger settings
\* (present is FALSE when the document has no <start>).
NewStart ==
    [present |-> TRUE,
     connector |-> NONE,
     triggerType |-> NONE,
     object |-> NONE,
     filterLogic |-> NONE,
     filters |-> 0]

\* The single-target connector children the flow schema gives each type.
SlotsOf(t) ==
    CASE t \in {"assignments", "subflows", "screens", "transforms"} ->
            {"connector"}
      [] t \in {"recordCreates", "recordUpdates", "recordDeletes",
                "recordLookups", "actionCalls"} ->
            {"connector", "faultConnector"}
      [] t = "decisions" -> {"defaultConnector"}
      [] t = "loops" -> {"nextValueConnector", "noMoreValuesConnector"}
      [] t = "waits" -> {"defaultConnector", "faultConnector"}
      [] OTHER -> {}

AllSlots ==
    {"connector", "faultConnector", "defaultConnector",
     "nextValueConnector", "noMoreValuesConnector"}

\* root.findall('.//sf:targetReference') below an element.
ElementTargetRefs(elem) ==
    {elem[s] : s \in AllSlots} \cup Range(elem.rules)

\* Number of targetReference nodes with text below an element.
ElementConnectorCount(elem) ==
    Cardinality({s \in AllSlots : elem[s] # NONE})
    + Cardinality({i \in DOMAIN elem.rules : elem.rules[i] # NONE})

RECURSIVE SumOver(_, _)
SumOver(S, f) ==
    IF S = {} THEN 0
    ELSE LET x == CHOOSE y \in S : TRUE
         IN f[x] + SumOver(S \ {x}, f)

ConnectorCount(fl) ==
    SumOver(DOMAIN fl.elements,
            [n \in DOMAIN fl.elements |-> ElementConnectorCount(fl.elements[n])])
    + (IF fl.start.connector # NONE THEN 1 ELSE 0)

(***************************************************************************)
(* _build_element_map                                                      *)
(***************************************************************************)
build_element_map(fl) ==
    [n \in DOMAIN fl.elements |-> <<fl.elements[n].type, fl.elements[n]>>]

\* root.findall('.//sf:loops'): the names of the loop elements.
Loops(fl) == {n \in DOMAIN fl.elements : fl.elements[n].type = "loops"}

(***************************************************************************)
(* _has_dml_in_path                                                        *)
(***************************************************************************)
\* Variant without the exit-path return (the walk runs on into the exit
\* path).
dml_path_stops_no_exit(current, loop_name, exit_target, visited) ==
    \/ current \in visited
    \/ current = loop_name

\* Variant without the visited test.
dml_path_stops_no_visited(current, loop_name, exit_target, visited) ==
    \/ current = loop_name
    \/ current = exit_target

\* The three early returns: visited, looped back, reached the exit path.
dml_path_stops(current, loop_name, exit_target, visited) ==
    \/ current \in visited
    \/ current = loop_name
    \/ current = exit_target

\* Variant that forgets recordDeletes.
is_dml_type_no_delete(elem_type) ==
    elem_type \in {"recordCreates", "recordUpdates"}

\* elem_type in ['recordCreates', 'recordUpdates', 'recordDeletes']
is_dml_type(elem_type) ==
    elem_type \in {"recordCreates", "recordUpdates", "recordDeletes"}

\* The connectors list: standard connector, every rule's connector, default
\* connector.  The fault connector is not added.
FollowedConnectors(elem) ==
    (IF elem.connector # NONE THEN <<elem.connector>> ELSE <<>>)
    \o SelectSeq(elem.rules, LAMBDA t : t # NONE)
    \o (IF elem.defaultConnector # NONE THEN <<elem.defaultConnector>> ELSE <<>>)

\* Variant that also follows the fault connector.
dml_connectors_with_fault(elem) ==
    FollowedConnectors(elem)
    \o (IF elem.faultConnector # NONE THEN <<elem.faultConnector>> ELSE <<>>)

\* Variant that forgets the default connector.
dml_connectors_no_default(elem) ==
    (IF elem.connector # NONE THEN <<elem.connector>> ELSE <<>>)
    \o SelectSeq(elem.rules, LAMBDA t : t # NONE)

\* Variant that also follows a loop's own connectors.
dml_connectors_through_loops(elem) ==
    FollowedConnectors(elem)
    \o (IF elem.nextValueConnector # NONE THEN <<elem.nextValueConnector>> ELSE <<>>)
    \o (IF elem.noMoreValuesConnector # NONE
        THEN <<elem.noMoreValuesConnector>> ELSE <<>>)

dml_connectors(elem) == FollowedConnectors(elem)

\* Variant whose for-loop returns the result of its first recursive call,
\* whatever it is.
RECURSIVE has_dml_in_path_first_branch(_, _, _, _, _)
has_dml_in_path_first_branch(current, loop_name, exit_target, visited, element_map) ==
    IF dml_path_stops(current, loop_name, exit_target, visited) THEN FALSE
    ELSE IF current \notin DOMAIN element_map THEN FALSE
    ELSE IF is_dml_type(element_map[current][1]) THEN TRUE
    ELSE LET connectors == dml_connectors(element_map[current][2])
         IN /\ connectors # <<>>
            /\ has_dml_in_path_first_branch(connectors[1], loop_name, exit_target,
                                            visited \cup {current}, element_map)

\* Variant that looks at the element's type before the loop and exit
\* tests.
RECURSIVE has_dml_in_path_type_first(_, _, _, _, _)
has_dml_in_path_type_first(current, loop_name, exit_target, visited, element_map) ==
    IF current \in visited THEN FALSE
    ELSE IF current \in DOMAIN element_map /\ is_dml_type(element_map[current][1])
    THEN TRUE
    ELSE IF current = loop_name \/ current = exit_target THEN FALSE
    ELSE IF current \notin DOMAIN element_map THEN FALSE
    ELSE LET connectors == dml_connectors(element_map[current][2])
         IN \E i \in 1..Len(connectors) :
                has_dml_in_path_type_first(connectors[i], loop_name, exit_target,
                                           visited \cup {current}, element_map)

RECURSIVE _has_dml_in_path(_, _, _, _, _)
_has_dml_in_path(current, loop_name, exit_target, visited, element_map) ==
    IF dml_path_stops(current, loop_name, exit_target, visited) THEN FALSE
    ELSE IF current \notin DOMAIN element_map THEN FALSE
    ELSE IF is_dml_type(element_map[current][1]) THEN TRUE
    ELSE LET connectors == dml_connectors(element_map[current][2])
         IN \E i \in 1..Len(connectors) :
                _has_dml_in_path(connectors[i], loop_name, exit_target,
                                 visited \cup {current}, element_map)

\* The walk _has_dml_in_loops makes for one loop: skipped (no result) when
\* the loop has no nextValueConnector, else started with an empty visited
\* set.
dml_walk_of_loop(fl, loop_name) ==
    LET loop == fl.elements[loop_name]
    IN /\ loop.nextValueConnector # NONE
       /\ _has_dml_in_path(loop.nextValueConnector, loop_name,
                           loop.noMoreValuesConnector, {},
                           build_element_map(fl))

\* Variant: the check before the v2.1.0 fix, which did not trace connectors
\* (a loop and a DML element anywhere in the document).
has_dml_in_loops_untraced(fl) ==
    /\ Loops(fl) # {}
    /\ \E n \in DOMAIN fl.elements : is_dml_type(fl.elements[n].type)

\* Variant that returns False at the first loop (in document order)
\* without nextValueConnector, instead of going on with the next loop.
has_dml_in_loops_stop_at_malformed(fl) ==
    LET place(n) == CHOOSE i \in DOMAIN NameOrder : NameOrder[i] = n
    IN \E loop_name \in Loops(fl) :
          /\ dml_walk_of_loop(fl, loop_name)
          /\ \A m \in Loops(fl) :
                place(m) < place(loop_name)
                => fl.elements[m].nextValueConnector # NONE

\* The for-loop over the loops returns True at the first walk that does.
_has_dml_in_loops(fl) ==
    \E loop_name \in Loops(fl) : dml_walk_of_loop(fl, loop_name)

(***************************************************************************)
(* _has_soql_in_path, _has_soql_in_loops                                   *)
(***************************************************************************)
soql_path_stops(current, loop_name, exit_target, visited) ==
    \/ current \in visited
    \/ current = loop_name
    \/ current = exit_target

is_soql_type(elem_type) == elem_type = "recordLookups"

\* Variant that also follows the fault connector.
soql_connectors_with_fault(elem) ==
    FollowedConnectors(elem)
    \o (IF elem.faultConnector # NONE THEN <<elem.faultConnector>> ELSE <<>>)

soql_connectors(elem) == FollowedConnectors(elem)

RECURSIVE _has_soql_in_path(_, _, _, _, _)
_has_soql_in_path(current, loop_name, exit_target, visited, element_map) ==
    IF soql_path_stops(current, loop_name, exit_target, visited) THEN FALSE
    ELSE IF current \notin DOMAIN element_map THEN FALSE
    ELSE IF is_soql_type(element_map[current][1]) THEN TRUE
    ELSE LET connectors == soql_connectors(element_map[current][2])
         IN \E i \in 1..Len(connectors) :
                _has_soql_in_path(connectors[i], loop_name, exit_target,
                                  visited \cup {current}, element_map)

soql_walk_of_loop(fl, loop_name) ==
    LET loop == fl.elements[loop_name]
    IN /\ loop.nextValueConnector # NONE
       /\ _has_soql_in_path(loop.nextValueConnector, loop_name,
                            loop.noMoreValuesConnector, {},
                            build_element_map(fl))

_has_soql_in_loops(fl) ==
    \E loop_name \in Loops(fl) : soql_walk_of_loop(fl, loop_name)

(***************************************************************************)
(* _has_action_in_path, _check_action_calls_in_loop                        *)
(***************************************************************************)
action_path_stops(current, loop_name, exit_target, visited) ==
    current \in visited \/ current = loop_name \/ current = exit_target

is_action_type(elem_type) == elem_type = "actionCalls"

action_connectors(elem) == FollowedConnectors(elem)

RECURSIVE _has_action_in_path(_, _, _, _, _)
_has_action_in_path(current, loop_name, exit_target, visited, element_map) ==
    IF action_path_stops(current, loop_name, exit_target, visited) THEN FALSE
    ELSE IF current \notin DOMAIN element_map THEN FALSE
    ELSE IF is_action_type(element_map[current][1]) THEN TRUE
    ELSE LET connectors == action_connectors(element_map[current][2])
         IN \E i \in 1..Len(connectors) :
                _has_action_in_path(connectors[i], loop_name, exit_target,
                                    visited \cup {current}, element_map)

action_walk_of_loop(fl, loop_name) ==
    LET loop == fl.elements[loop_name]
    IN /\ loop.nextValueConnector # NONE
       /\ _has_action_in_path(loop.nextValueConnector, loop_name,
                              loop.noMoreValuesConnector, {},
                              build_element_map(fl))

_check_action_calls_in_loop(fl) ==
    \E loop_name \in Loops(fl) : action_walk_of_loop(fl, loop_name)

(***************************************************************************)
(* _validate_logic_structure: the loop-based findings                      *)
(***************************************************************************)
DmlInLoopIssue ==
    [severity |-> "CRITICAL",
     message |-> "DML operations found inside loops - WILL CAUSE BULK FAILURES",
     fix |-> "Move DML outside loops, collect records in collection first"]

SoqlInLoopIssue ==
    [severity |-> "CRITICAL",
     message |-> "SOQL queries found inside loops - WILL HIT GOVERNOR LIMITS",
     fix |-> "Query records before loop, use collection variable"]

ActionInLoopWarning ==
    [severity |-> "HIGH",
     message |-> "Apex action calls found inside loops - callout limit risk",
     suggestion |-> "Consider bulkifying the action or calling outside the loop"]

\* n copies of a finding.
Repeat(f, n) == [i \in 1..n |-> f]

\* Variant that appends one DML finding per offending loop.
validate_logic_structure_per_loop(fl) ==
    [critical_issues |->
        Repeat(DmlInLoopIssue,
               Cardinality({L \in Loops(fl) : dml_walk_of_loop(fl, L)}))
        \o (IF _has_soql_in_loops(fl) THEN <<SoqlInLoopIssue>> ELSE <<>>),
     warnings |->
        (IF _check_action_calls_in_loop(fl) THEN <<ActionInLoopWarning>> ELSE <<>>)]

\* Variant that reports action calls in loops as a CRITICAL issue.
validate_logic_structure_action_critical(fl) ==
    [critical_issues |->
        (IF _has_dml_in_loops(fl) THEN <<DmlInLoopIssue>> ELSE <<>>)
        \o (IF _has_soql_in_loops(fl) THEN <<SoqlInLoopIssue>> ELSE <<>>)
        \o (IF _check_action_calls_in_loop(fl)
            THEN <<[ActionInLoopWarning EXCEPT !.severity = "CRITICAL"]>> ELSE <<>>),
     warnings |-> <<>>]

_validate_logic_structure(fl) ==
    [critical_issues |->
        (IF _has_dml_in_loops(fl) THEN <<DmlInLoopIssue>> ELSE <<>>)
        \o (IF _has_soql_in_loops(fl) THEN <<SoqlInLoopIssue>> ELSE <<>>),
     warnings |->
        (IF _check_action_calls_in_loop(fl) THEN <<ActionInLoopWarning>> ELSE <<>>)]

(***************************************************************************)
(* _check_unconnected_elements                                             *)
(***************************************************************************)
\* all_elements: the names of the elements of the twelve element types.
all_elements(fl) ==
    {n \in DOMAIN fl.elements : fl.elements[n].type \in Range(element_types)}

\* Variant that collects the targets of standard connectors only.
all_target_references_standard_only(fl) ==
    ({fl.elements[n].connector : n \in DOMAIN fl.elements}
     \cup (IF fl.start.present THEN {fl.start.connector} ELSE {}))
    \ {NONE}

\* root.findall('.//sf:targetReference'): every connector target of the
\* document that has text, the start element's included.
all_target_references(fl) ==
    ((UNION {ElementTargetRefs(fl.elements[n]) : n \in DOMAIN fl.elements})
     \cup (IF fl.start.present THEN {fl.start.connector} ELSE {}))
    \ {NONE}

connected_elements(fl) ==
    (IF fl.start.present /\ fl.start.connector # NONE
     THEN {fl.start.connector} ELSE {})
    \cup all_target_references(fl)

\* The returned list holds each member of the set once, in the set's
\* iteration order; it is kept as the set.
_check_unconnected_elements(fl) ==
    all_elements(fl) \ connected_elements(fl)

(***************************************************************************)
(* _check_unused_variables                                                 *)
(***************************************************************************)
\* Names of <variables> nodes a document may declare.
VarNames == {"varA", "varB", "varC"}

\* reference_tags of _check_unused_variables.
reference_tags == <<"elementReference", "inputReference", "outputReference", "value">>

\* Tags of the nodes of a flow document whose text names a variable: the
\* four above, and those of assignment targets, loop collections and
\* condition operands.
ReferenceNodeTags ==
    Range(reference_tags)
    \cup {"assignToReference", "collectionReference", "leftValueReference"}

\* The text of a reference node, as its dot-separated segments:
\* "varA" is <<"varA">>, "varA.Name" is <<"varA", "Name">>, and an empty
\* text is <<>>.
ReferenceTexts ==
    {<<>>} \cup {<<v>> : v \in VarNames} \cup {<<v, "Name">> : v \in VarNames}

\* elem.text.split('.')[0]
first_segment(text) == text[1]

\* A merge field {!name} or {!$name} of a formula expression.
MergeFields == [name : VarNames, global : BOOLEAN]

\* re.findall(r'\{!\s*(\w+)', expr.text): \w does not match "$", so a
\* merge field on a global variable gives no token.
formula_tokens(expression) ==
    {f.name : f \in {g \in expression : ~g.global}}

\* defined_vars
defined_vars(fl) == fl.variables

\* The texts of the nodes found under the four reference_tags; the
\* inputReference child of a record element is one of them.
scanned_reference_texts(fl) ==
    {r.text : r \in {q \in fl.references : q.tag \in Range(reference_tags)}}
    \cup {<<fl.elements[n].inputReference>> :
             n \in {m \in DOMAIN fl.elements : fl.elements[m].inputReference # NONE}}

\* referenced_vars
referenced_vars(fl) ==
    {first_segment(t) : t \in {u \in scanned_reference_texts(fl) : u # <<>>}}
    \cup UNION {formula_tokens(e) : e \in fl.formulas}

\* The returned list holds each member of the set once; it is kept as the
\* set.
_check_unused_variables(fl) ==
    defined_vars(fl) \ referenced_vars(fl)

\* _validate_architecture: the unused-variables advisory, then the
\* orphaned-elements advisory (each message carries the length of the list
\* and its first three names).
_validate_architecture(fl) ==
    LET unused_vars == _check_unused_variables(fl)
        orphaned == _check_unconnected_elements(fl)
    IN [advisory |->
          (IF unused_vars # {}
           THEN <<[category |-> "Clean Code",
                   count |-> Cardinality(unused_vars),
                   names |-> unused_vars,
                   suggestion |-> "Remove unused variables to reduce clutter"]>>
           ELSE <<>>)
          \o
          (IF orphaned # {}
           THEN <<[category |-> "Clean Code",
                   count |-> Cardinality(orphaned),
                   names |-> orphaned,
                   suggestion |-> "Remove or connect orphaned elements"]>>
           ELSE <<>>)]

(***************************************************************************)
(* _check_recursive_after_update                                           *)
(***************************************************************************)
\* Variant that looks at filterLogic only.
has_entry_conditions_logic_only(start) ==
    start.filterLogic # NONE

\* filter_logic is not None or len(filters) > 0
has_entry_conditions(start) ==
    start.filterLogic # NONE \/ start.filters > 0

\* Variant that scans every write element.
record_updates_all_writes(fl) ==
    {n \in DOMAIN fl.elements :
        fl.elements[n].type \in {"recordCreates", "recordUpdates", "recordDeletes"}}

\* root.findall('.//sf:recordUpdates')
record_updates(fl) ==
    {n \in DOMAIN fl.elements : fl.elements[n].type = "recordUpdates"}

_check_recursive_after_update(fl) ==
    LET start == fl.start
    IN IF ~start.present THEN FALSE
       ELSE IF start.triggerType = NONE \/ start.triggerType # "RecordAfterSave"
            THEN FALSE
       ELSE IF start.object = NONE THEN FALSE
       ELSE \E n \in record_updates(fl) :
              LET update == fl.elements[n]
              IN \/ /\ update.object # NONE
                    /\ update.object = start.object
                    /\ ~has_entry_conditions(start)
                 \/ /\ update.inputReference # NONE
                    /\ update.inputReference = "$Record"
                    /\ ~has_entry_conditions(start)

RecursiveUpdateIssue ==
    [severity |-> "CRITICAL",
     message |-> "INFINITE LOOP RISK: After-save flow updates same object without entry conditions",
     fix |-> "Add entry conditions to prevent recursive triggering"]

\* _validate_error_handling: the recursive after-save update finding.
_validate_error_handling(fl) ==
    [critical_issues |->
        IF _check_recursive_after_update(fl)
        THEN <<RecursiveUpdateIssue>> ELSE <<>>]

(***************************************************************************)
(* validate                                                                *)
(***************************************************************************)
validate(fl) ==
    [logic_structure |-> _validate_logic_structure(fl),
     architecture |-> _validate_architecture(fl),
     error_handling |-> _validate_error_handling(fl)]

VARIABLES
    flow,       \* the document on disk, as parsed into self.root
    results,    \* what validate() returned for it
    run         \* a step-by-step execution of _has_dml_in_loops

vars == <<flow, results, run>>

EmptyFlow ==
    [elements |-> <<>>, start |-> NewStart,
     variables |-> {}, references |-> {}, formulas |-> {}]

\* No execution under way.
IdleRun ==
    [pc |-> "idle",
     todo |-> {},
     loop_name |-> NONE,
     exit_target |-> NONE,
     stack |-> <<>>,
     heap |-> <<>>,
     ret |-> NONE,
     calls |-> 0,
     result |-> NONE,
     runs |-> 0,
     first |-> NONE,
     report |-> NONE,
     exit_code |-> NONE,
     printed |-> <<>>]

Init ==
    /\ flow = EmptyFlow
    /\ results = validate(EmptyFlow)
    /\ run = IdleRun

\* The hook validates the document just written.
Validated ==
    /\ results' = validate(flow')
    /\ UNCHANGED run

\* Names are opaque to the validator (it only compares them), so documents
\* are enumerated up to renaming: elements are declared in the order of
\* Names and in non-decreasing order of their type's place in element_types.
DeclaredInOrder(n, t) ==
    /\ \E i \in DOMAIN NameOrder :
          /\ NameOrder[i] = n
          /\ \A j \in 1..(i - 1) : NameOrder[j] \in DOMAIN flow.elements
    /\ \A m \in DOMAIN flow.elements :
          TypeIndex(flow.elements[m].type) <= TypeIndex(t)

\* The edits of the document.
EditAddElement(n, elem) ==
    /\ n \notin DOMAIN flow.elements
    /\ DeclaredInOrder(n, elem.type)
    /\ flow' = [flow EXCEPT !.elements = (n :> elem) @@ @]

EditSetConnector(n, slot, tgt) ==
    /\ n \in DOMAIN flow.elements
    /\ slot \in SlotsOf(flow.elements[n].type)
    /\ flow.elements[n][slot] = NONE
    /\ ConnectorCount(flow) < MaxConnectors
    /\ flow' = [flow EXCEPT !.elements[n][slot] = tgt]

EditAddRule(n, tgt) ==
    /\ n \in DOMAIN flow.elements
    /\ flow.elements[n].type = "decisions"
    /\ Len(flow.elements[n].rules) < MaxRules
    /\ ConnectorCount(flow) < MaxConnectors
    /\ flow' = [flow EXCEPT !.elements[n].rules = Append(@, tgt)]

\* A new element of type t named n, not yet connected.
AddElement(n, t) == EditAddElement(n, NewElement(t)) /\ Validated

\* A connector child (slot) of element n gets its targetReference.
SetConnector(n, slot, tgt) == EditSetConnector(n, slot, tgt) /\ Validated

\* A decision gets one more <rules> child, whose connector targets tgt.
AddRule(n, tgt) == EditAddRule(n, tgt) /\ Validated

\* The start element gets its connector.
SetStartConnector(tgt) ==
    /\ flow.start.present
    /\ flow.start.connector = NONE
    /\ ConnectorCount(flow) < MaxConnectors
    /\ flow' = [flow EXCEPT !.start.connector = tgt]
    /\ Validated

(***************************************************************************)
(* Spec: documents of all authored types, edited element by element and    *)
(* connector by connector; the loop-based detectors are read from results. *)
(***************************************************************************)
Next ==
    \/ \E n \in Names, t \in AuthoredTypes : AddElement(n, t)
    \/ \E n \in Names, slot \in AllSlots, tgt \in Names : SetConnector(n, slot, tgt)
    \/ \E n \in Names, tgt \in Names : AddRule(n, tgt)

Spec == Init /\ [][Next]_vars

(***************************************************************************)
(* SpecOrphan: documents with every kind of connector, the start           *)
(* element's included.                                                     *)
(***************************************************************************)
\* A new element written together with one of its connectors.
AddConnectedElement(n, t, slot, tgt) ==
    /\ slot \in SlotsOf(t)
    /\ ConnectorCount(flow) < MaxConnectors
    /\ EditAddElement(n, [NewElement(t) EXCEPT ![slot] = tgt])
    /\ Validated

NextOrphan ==
    \/ \E n \in Names, t \in OrphanSpecTypes : AddElement(n, t)
    \/ \E n \in Names, t \in OrphanSpecTypes, slot \in AllSlots, tgt \in Names :
          AddConnectedElement(n, t, slot, tgt)
    \/ \E n \in Names, slot \in AllSlots, tgt \in Names : SetConnector(n, slot, tgt)
    \/ \E n \in Names, tgt \in Names : AddRule(n, tgt)
    \/ \E tgt \in Names : SetStartConnector(tgt)

SpecOrphan == Init /\ [][NextOrphan]_vars

(***************************************************************************)
(* SpecTrigger: record-triggered documents: record elements with their     *)
(* object and inputReference, and the start element's trigger settings.    *)
(***************************************************************************)
Objects == {"Case", "Account"}

InputReferences == {"$Record", "varRecord"}

TriggerTypes == {"RecordAfterSave", "RecordBeforeSave"}

TriggerSpecTypes == {"recordCreates", "recordUpdates", "recordDeletes"}

TriggerSpecNames == {"e1", "e2"}

\* A record element with its object and inputReference children.
AddRecordElement(n, t, obj, ref) ==
    /\ EditAddElement(n, [NewElement(t) EXCEPT !.object = obj,
                                               !.inputReference = ref])
    /\ Validated

SetTriggerType(tt) ==
    /\ flow.start.present
    /\ flow.start.triggerType = NONE
    /\ flow' = [flow EXCEPT !.start.triggerType = tt]
    /\ Validated

SetTriggerObject(obj) ==
    /\ flow.start.present
    /\ flow.start.object = NONE
    /\ flow' = [flow EXCEPT !.start.object = obj]
    /\ Validated

\* One more <filters> child of the start element.
AddFilter ==
    /\ flow.start.present
    /\ flow.start.filters < MaxFilters
    /\ flow' = [flow EXCEPT !.start.filters = @ + 1]
    /\ Validated

SetFilterLogic ==
    /\ flow.start.present
    /\ flow.start.filterLogic = NONE
    /\ flow' = [flow EXCEPT !.start.filterLogic = "and"]
    /\ Validated

\* The document loses its start element.
RemoveStart ==
    /\ flow.start.present
    /\ flow' = [flow EXCEPT !.start = [NewStart EXCEPT !.present = FALSE]]
    /\ Validated

NextTrigger ==
    \/ \E n \in TriggerSpecNames, t \in TriggerSpecTypes,
          obj \in Objects \cup {NONE}, ref \in InputReferences \cup {NONE} :
            AddRecordElement(n, t, obj, ref)
    \/ \E tt \in TriggerTypes : SetTriggerType(tt)
    \/ \E obj \in Objects : SetTriggerObject(obj)
    \/ AddFilter
    \/ SetFilterLogic
    \/ RemoveStart

SpecTrigger == Init /\ [][NextTrigger]_vars

(***************************************************************************)
(* SpecUnused: documents with <variables> declarations, reference nodes    *)
(* and <formulas> expressions.                                             *)
(***************************************************************************)
\* Largest number of reference nodes in a document.
MaxReferences == 1

\* Largest number of <formulas> nodes in a document.
MaxFormulas == 1

\* One more <variables> node, named v.
DeclareVariable(v) ==
    /\ v \notin flow.variables
    /\ flow' = [flow EXCEPT !.variables = @ \cup {v}]
    /\ Validated

\* One more node with the given tag and text somewhere in the document.
AddReference(tag, text) ==
    /\ Cardinality(flow.references) < MaxReferences
    /\ flow' = [flow EXCEPT !.references = @ \cup {[tag |-> tag, text |-> text]}]
    /\ Validated

\* One more <formulas> node whose expression holds one merge field.
AddFormula(field) ==
    /\ Cardinality(flow.formulas) < MaxFormulas
    /\ flow' = [flow EXCEPT !.formulas = @ \cup {{field}}]
    /\ Validated

NextUnused ==
    \/ \E v \in VarNames : DeclareVariable(v)
    \/ \E tag \in ReferenceNodeTags, text \in ReferenceTexts : AddReference(tag, text)
    \/ \E field \in MergeFields : AddFormula(field)

SpecUnused == Init /\ [][NextUnused]_vars

(***************************************************************************)
(* SpecDangling: documents whose connectors may name an element that the   *)
(* document does not declare.                                              *)
(***************************************************************************)
\* A name no element of the document has.
MissingName == "missing"

DanglingSpecTypes ==
    {"decisions", "recordCreates", "recordLookups", "loops", "actionCalls"}

NextDangling ==
    \/ \E n \in Names, t \in DanglingSpecTypes : AddElement(n, t)
    \/ \E n \in Names, slot \in AllSlots \ {"faultConnector"},
          tgt \in Names \cup {MissingName} : SetConnector(n, slot, tgt)
    \/ \E n \in Names, tgt \in Names \cup {MissingName} : AddRule(n, tgt)

SpecDangling == Init /\ [][NextDangling]_vars

(***************************************************************************)
(* SpecCli: the command-line entry point run on a document:                *)
(* generate_report() (which calls validate()), then validate() again and   *)
(* sys.exit.                                                               *)
(***************************************************************************)
\* results['critical_issues']: the critical issues of the categories, in
\* the order of the categories (the other categories append none).
critical_issues(res) ==
    res.logic_structure.critical_issues \o res.error_handling.critical_issues

\* The footer of the report.
report_footer(res) ==
    IF critical_issues(res) # <<>>
    THEN "DEPLOYMENT BLOCKED - Fix critical issues first"
    ELSE "DEPLOYMENT APPROVED (advisory recommendations provided)"

\* Variant that also exits with 1 on warnings.
exit_status_on_warnings(res) ==
    IF critical_issues(res) # <<>> \/ res.logic_structure.warnings # <<>>
    THEN 1 ELSE 0

\* sys.exit(1 if results['critical_issues'] else 0)
exit_status(res) ==
    IF critical_issues(res) # <<>> THEN 1 ELSE 0

CliSpecTypes == {"recordUpdates", "recordLookups", "loops", "actionCalls"}

CliSpecSlots == {"connector", "nextValueConnector", "noMoreValuesConnector"}

\* The document is edited while no command runs.
CliAddElement(n, t, obj) ==
    /\ run.pc = "idle"
    /\ obj # NONE => t = "recordUpdates"
    /\ AddRecordElement(n, t, obj, NONE)

CliSetConnector(n, slot, tgt) ==
    /\ run.pc = "idle"
    /\ SetConnector(n, slot, tgt)

CliSetTrigger ==
    /\ run.pc = "idle"
    /\ \/ SetTriggerType("RecordAfterSave")
       \/ SetTriggerObject("Case")
       \/ AddFilter

CliDeclareVariable ==
    /\ run.pc = "idle"
    /\ DeclareVariable("varA")

\* report = validator.generate_report(); print(report)
GenerateReport ==
    /\ run.pc = "idle"
    /\ results' = validate(flow)
    /\ run' = [run EXCEPT !.pc = "reported", !.report = report_footer(results')]
    /\ UNCHANGED flow

\* results = validator.validate(); sys.exit(...)
ValidateAndExit ==
    /\ run.pc = "reported"
    /\ results' = validate(flow)
    /\ run' = [run EXCEPT !.pc = "exited", !.exit_code = exit_status(results')]
    /\ UNCHANGED flow

NextCli ==
    \/ \E n \in TriggerSpecNames, t \in CliSpecTypes, obj \in {"Case", NONE} :
          CliAddElement(n, t, obj)
    \/ \E n \in TriggerSpecNames, slot \in CliSpecSlots, tgt \in TriggerSpecNames :
          CliSetConnector(n, slot, tgt)
    \/ CliSetTrigger
    \/ CliDeclareVariable
    \/ GenerateReport
    \/ ValidateAndExit

SpecCli == Init /\ [][NextCli]_vars

(***************************************************************************)
(* SpecWalk: _has_dml_in_loops executed call by call.  The document is     *)
(* drafted (edits with no validation in between), then the detector runs:  *)
(* run.stack holds one frame per _has_dml_in_path call that is inside its  *)
(* for-loop over connectors, run.heap the visited set objects (a frame     *)
(* holds the reference it was passed), run.ret the value the last finished *)
(* call returned ("True" or "False"; NONE while a call is running).        *)
(***************************************************************************)
DraftAddElement(n, t) ==
    /\ run.pc = "idle"
    /\ EditAddElement(n, NewElement(t))
    /\ UNCHANGED <<results, run>>

DraftSetConnector(n, slot, tgt) ==
    /\ run.pc = "idle"
    /\ EditSetConnector(n, slot, tgt)
    /\ UNCHANGED <<results, run>>

DraftAddRule(n, tgt) ==
    /\ run.pc = "idle"
    /\ EditAddRule(n, tgt)
    /\ UNCHANGED <<results, run>>

\* A reference not used by heap h.
NewRef(h) == CHOOSE r \in 1..(Cardinality(DOMAIN h) + 1) : r \notin DOMAIN h

\* The set objects still referenced: by the local visited of
\* _has_dml_in_loops (reference 1) or by a frame of _has_dml_in_path (the
\* others are freed).
Collect(h, stk) ==
    [r \in ({1} \cap DOMAIN h) \cup {stk[i].visited : i \in DOMAIN stk} |-> h[r]]

\* Variant in which visited is created once, before the for-loop over the
\* loops.
new_visited_hoisted(h) ==
    IF 1 \in DOMAIN h THEN (1 :> h[1]) ELSE (1 :> {})

\* visited = set(): the local visited of _has_dml_in_loops is bound to a
\* new empty set; the heap after it.
new_visited(h) == (1 :> {})

\* One call _has_dml_in_path(current, loop_name, exit_target, visited, map),
\* where visited is the reference ref into heap h, run up to its return or
\* to the start of its for-loop over connectors: the run record after it.
EnterPath(r, current, ref, h) ==
    LET element_map == build_element_map(flow)
        counted == [r EXCEPT !.calls = @ + 1]
    IN IF dml_path_stops(current, r.loop_name, r.exit_target, h[ref])
       THEN [counted EXCEPT !.ret = "False", !.heap = Collect(h, r.stack)]
       ELSE LET h2 == [h EXCEPT ![ref] = @ \cup {current}]
            IN IF current \notin DOMAIN element_map
               THEN [counted EXCEPT !.ret = "False", !.heap = Collect(h2, r.stack)]
               ELSE IF is_dml_type(element_map[current][1])
               THEN [counted EXCEPT !.ret = "True", !.heap = Collect(h2, r.stack)]
               ELSE [counted EXCEPT
                        !.ret = NONE,
                        !.heap = h2,
                        !.stack = Append(@, [current |-> current,
                                             visited |-> ref,
                                             connectors |->
                                                dml_connectors(element_map[current][2]),
                                             idx |-> 1])]

\* _has_dml_in_loops starts: loops = findall(...); if not loops: return False.
\* Variant in which the loops are held by an iterator made once for the
\* validator object, exhausted after the first call.
StartRunExhausted(r) ==
    IF Loops(flow) = {} \/ r.runs > 1
    THEN [r EXCEPT !.pc = "done", !.result = "False"]
    ELSE [r EXCEPT !.pc = "loops", !.todo = Loops(flow)]

\* loops = self.root.findall('.//sf:loops'); if not loops: return False
StartRun(r) ==
    IF Loops(flow) = {}
    THEN [r EXCEPT !.pc = "done", !.result = "False"]
    ELSE [r EXCEPT !.pc = "loops", !.todo = Loops(flow)]

BeginDetector ==
    /\ run.pc = "idle"
    /\ run' = StartRun([IdleRun EXCEPT !.runs = 1])
    /\ UNCHANGED <<flow, results>>

\* The same validator object runs the detector a second time (__main__:
\* validate() within generate_report(), then validate() again).
SecondCall ==
    /\ run.pc = "done"
    /\ run.runs = 1
    /\ run' = StartRun([IdleRun EXCEPT !.runs = 2, !.first = run.result])
    /\ UNCHANGED <<flow, results>>

\* The next iteration of the for-loop over loops (any document order), or
\* its end: return False.  A loop without nextValueConnector is skipped;
\* otherwise visited = set() and the walk of the loop's body starts.
NextLoop ==
    /\ run.pc = "loops"
    /\ \/ /\ run.todo = {}
          /\ run' = [run EXCEPT !.pc = "done", !.result = "False", !.heap = <<>>]
       \/ \E L \in run.todo :
             LET loop == flow.elements[L]
                 r0 == [run EXCEPT !.todo = @ \ {L}]
             IN IF loop.nextValueConnector = NONE
                THEN run' = r0
                ELSE run' = EnterPath(
                               [r0 EXCEPT !.pc = "walk",
                                          !.loop_name = L,
                                          !.exit_target = loop.noMoreValuesConnector,
                                          !.stack = <<>>,
                                          !.ret = NONE],
                               loop.nextValueConnector, 1, new_visited(run.heap))
    /\ UNCHANGED <<flow, results>>

Top == run.stack[Len(run.stack)]

\* Variant that passes visited itself to the recursive call.
visited_copy_alias(h, ref) == <<ref, h>>

\* visited.copy(): a new set object with the elements of the set ref
\* refers to; the value is <<the new reference, the heap with it>>.
visited_copy(h, ref) ==
    LET new == NewRef(h)
    IN <<new, (new :> h[ref]) @@ h>>

\* The for-loop of the top frame calls _has_dml_in_path on its next
\* connector, with visited.copy(); beyond the recursion limit the
\* interpreter raises RecursionError.
CallNext ==
    /\ run.pc = "walk"
    /\ run.stack # <<>>
    /\ run.ret = NONE
    /\ Top.idx <= Len(Top.connectors)
    /\ run' = IF Len(run.stack) >= RecursionLimit
              THEN [run EXCEPT !.pc = "RecursionError"]
              ELSE LET copy == visited_copy(run.heap, Top.visited)
                   IN EnterPath(run, Top.connectors[Top.idx], copy[1], copy[2])
    /\ UNCHANGED <<flow, results>>

\* The call returned False: the for-loop goes on to the next connector.
ContinueLoop ==
    /\ run.pc = "walk"
    /\ run.stack # <<>>
    /\ run.ret = "False"
    /\ run' = [run EXCEPT !.ret = NONE,
                          !.stack[Len(run.stack)].idx = @ + 1]
    /\ UNCHANGED <<flow, results>>

\* The call returned True: return True.
ReturnTrue ==
    /\ run.pc = "walk"
    /\ run.stack # <<>>
    /\ run.ret = "True"
    /\ LET stk == SubSeq(run.stack, 1, Len(run.stack) - 1)
       IN run' = [run EXCEPT !.stack = stk, !.heap = Collect(run.heap, stk)]
    /\ UNCHANGED <<flow, results>>

\* The for-loop is exhausted: return False.
ReturnFalse ==
    /\ run.pc = "walk"
    /\ run.stack # <<>>
    /\ run.ret = NONE
    /\ Top.idx > Len(Top.connectors)
    /\ LET stk == SubSeq(run.stack, 1, Len(run.stack) - 1)
       IN run' = [run EXCEPT !.stack = stk, !.heap = Collect(run.heap, stk),
                             !.ret = "False"]
    /\ UNCHANGED <<flow, results>>

\* The walk of the loop's body returned to _has_dml_in_loops: return True,
\* or go on with the next loop.
WalkReturned ==
    /\ run.pc = "walk"
    /\ run.stack = <<>>
    /\ run.ret \in {"True", "False"}
    /\ run' = IF run.ret = "True"
              THEN [run EXCEPT !.pc = "done", !.result = "True", !.ret = NONE,
                               !.heap = <<>>]
              ELSE [run EXCEPT !.pc = "loops", !.ret = NONE]
    /\ UNCHANGED <<flow, results>>

Execute ==
    \/ NextLoop
    \/ CallNext
    \/ ContinueLoop
    \/ ReturnTrue
    \/ ReturnFalse
    \/ WalkReturned

NextWalk ==
    \/ \E n \in Names, t \in WalkSpecTypes : DraftAddElement(n, t)
    \/ \E n \in Names, slot \in AllSlots \ {"faultConnector"}, tgt \in Names :
          DraftSetConnector(n, slot, tgt)
    \/ \E n \in Names, tgt \in Names : DraftAddRule(n, tgt)
    \/ BeginDetector
    \/ SecondCall
    \/ Execute

\* Once started, the interpreter keeps executing.
SpecWalk == Init /\ [][NextWalk]_vars /\ WF_vars(Execute)

(***************************************************************************)
(* SpecHook: post-tool-validate.py, main(): one process per tool call,     *)
(* which reads the hook input from stdin and prints one JSON object.       *)
(***************************************************************************)
\* What stdin holds, as far as main() looks at it: whether it parses as
\* JSON and to an object, tool_response.success, the kind of
\* tool_input.file_path, and whether the file it names parses as XML.
HookInputs ==
    [json : {"invalid", "not_object", "object"},
     success : {"absent", "true", "false"},
     file_path : {"absent", "flow", "other", "not_string"},
     xml : {"well_formed", "malformed"},
     ca : {"unavailable", "clean", "violation"}]

\* The object printed; output holds the lines of its optional output
\* member (none when the member is absent).
HookResult(continue, output) == [continue |-> continue, output |-> output]

\* cat_data.get('issues', []) of one category of validate()'s result.
category_issues(cat_data) ==
    IF "issues" \in DOMAIN cat_data THEN cat_data.issues ELSE <<>>

\* custom_issues: the issues of all categories, in the categories' order.
custom_issues(custom_results) ==
    category_issues(custom_results.logic_structure)
    \o category_issues(custom_results.architecture)
    \o category_issues(custom_results.error_handling)

\* What the Code Analyzer scan (code_analyzer.scanner, not part of the
\* repository's sources here) gave: no violation when it is unavailable or
\* found nothing, else one violation.
ca_violations(ca) ==
    IF ca = "violation"
    THEN <<[severity |-> "HIGH", source |-> "CA:flow", message |-> "violation"]>>
    ELSE <<>>

severity_order(severity) ==
    CASE severity = "CRITICAL" -> 0
      [] severity = "HIGH" -> 1
      [] severity = "MODERATE" -> 2
      [] severity = "WARNING" -> 3
      [] severity = "LOW" -> 4
      [] OTHER -> 5

\* all_issues.sort(key=severity_order): a stable sort.
RECURSIVE sort_by_severity(_)
sort_by_severity(issues) ==
    IF issues = <<>> THEN <<>>
    ELSE LET least == CHOOSE i \in DOMAIN issues :
                         \A j \in DOMAIN issues :
                             \/ severity_order(issues[i].severity)
                                   < severity_order(issues[j].severity)
                             \/ /\ severity_order(issues[i].severity)
                                     = severity_order(issues[j].severity)
                                /\ i <= j
             rest == [k \in 1..(Len(issues) - 1) |->
                         IF k < least THEN issues[k] ELSE issues[k + 1]]
         IN <<issues[least]>> \o sort_by_severity(rest)

\* all_issues: the custom issues, then the Code Analyzer violations.
all_issues(custom_results, ca) ==
    [i \in DOMAIN custom_issues(custom_results) |->
        [severity |-> custom_issues(custom_results)[i].severity,
         source |-> "sf-skills",
         message |-> custom_issues(custom_results)[i].message]]
    \o ca_violations(ca)

\* output_parts, as far as the issues are concerned: the heading, then
\* either the issues heading and one line per issue or "No issues found!".
output_parts(custom_results, ca) ==
    <<"Flow Validation">>
    \o (IF all_issues(custom_results, ca) # <<>>
        THEN <<"Issues Found">>
             \o [i \in DOMAIN all_issues(custom_results, ca) |->
                    sort_by_severity(all_issues(custom_results, ca))[i].message]
        ELSE <<"No issues found!">>)

\* Variant that stops the operation when the flow has critical issues.
validate_flow_with_ca_blocking(input, fl) ==
    IF input.xml = "malformed"
    THEN HookResult(TRUE, <<"Flow validation error">>)
    ELSE HookResult(critical_issues(validate(fl)) = <<>>,
                    output_parts(validate(fl), input.ca))

\* validate_flow_with_ca: EnhancedFlowValidator(file_path).validate() and
\* the formatted feedback; any exception gives the error message instead.
validate_flow_with_ca(input, fl) ==
    IF input.xml = "malformed"
    THEN HookResult(TRUE, <<"Flow validation error">>)
    ELSE HookResult(TRUE, output_parts(validate(fl), input.ca))

\* main(): the object it prints; it returns 0 on every path.
main_result(input, fl) ==
    IF input.json = "invalid" THEN HookResult(TRUE, <<>>)
    ELSE IF input.json = "not_object" THEN HookResult(TRUE, <<"Hook error">>)
    ELSE IF input.success = "false" THEN HookResult(TRUE, <<>>)
    ELSE IF input.file_path = "not_string" THEN HookResult(TRUE, <<"Hook error">>)
    ELSE IF input.file_path = "flow" THEN validate_flow_with_ca(input, fl)
    ELSE HookResult(TRUE, <<>>)

main_status(input) == 0

\* The validator ran to its end in this hook process.
HookValidates(input) ==
    /\ input.json = "object"
    /\ input.success # "false"
    /\ input.file_path = "flow"
    /\ input.xml = "well_formed"

\* The tool wrote the document; the hook process runs on the given input.
Hook(input) ==
    /\ run.pc = "idle"
    /\ run' = [run EXCEPT !.pc = "hook_exited",
                          !.printed = <<main_result(input, flow)>>,
                          !.exit_code = main_status(input)]
    /\ results' = IF HookValidates(input) THEN validate(flow) ELSE results
    /\ UNCHANGED flow

\* The next tool call.
NextToolCall ==
    /\ run.pc = "hook_exited"
    /\ run' = IdleRun
    /\ UNCHANGED <<flow, results>>

NextHook ==
    \/ \E n \in TriggerSpecNames, t \in WalkSpecTypes : DraftAddElement(n, t)
    \/ \E n \in TriggerSpecNames, slot \in AllSlots \ {"faultConnector"},
          tgt \in TriggerSpecNames : DraftSetConnector(n, slot, tgt)
    \/ \E input \in HookInputs : Hook(input)
    \/ NextToolCall

SpecHook == Init /\ [][NextHook]_vars

(***************************************************************************)
(* Reference notions the claims are stated with.  They are defined from    *)
(* the document alone (a least fixed point over connector targets), not    *)
(* from the walkers.                                                       *)
(***************************************************************************)
WriteTypes == {"recordCreates", "recordUpdates", "recordDeletes"}
QueryTypes == {"recordLookups"}
CallTypes == {"actionCalls"}

\* Targets of the standard, decision-rule and default connectors.
NonFaultTargets(elem) ==
    ({elem.connector, elem.defaultConnector} \cup Range(elem.rules)) \ {NONE}

\* The same plus the fault connector.
WithFaultTargets(elem) == NonFaultTargets(elem) \cup ({elem.faultConnector} \ {NONE})

\* Targets of every connector of an element.
AnyTargets(elem) == ElementTargetRefs(elem) \ {NONE}

\* Least set holding S and closed under following edges (0: non-fault,
\* 1: non-fault and fault, 2: every connector) out of declared elements,
\* never entering a name of stop.
RECURSIVE Closure(_, _, _, _)
Closure(fl, S, stop, edges) ==
    LET succ(n) == IF n \notin DOMAIN fl.elements THEN {}
                   ELSE IF edges = 0 THEN NonFaultTargets(fl.elements[n])
                   ELSE IF edges = 1 THEN WithFaultTargets(fl.elements[n])
                   ELSE AnyTargets(fl.elements[n])
        S2 == S \cup ((UNION {succ(n) : n \in S}) \ stop)
    IN IF S2 = S THEN S ELSE Closure(fl, S2, stop, edges)

\* The names on the repeat-body path of loop L: reached from the
\* nextValueConnector target before returning to L or reaching L's
\* noMoreValuesConnector target.
BodyPath(fl, L, edges) ==
    LET loop == fl.elements[L]
        stop == {L, loop.noMoreValuesConnector}
    IN IF loop.nextValueConnector = NONE \/ loop.nextValueConnector \in stop
       THEN {}
       ELSE Closure(fl, {loop.nextValueConnector}, stop, edges)

HasType(fl, S, types) ==
    \E n \in S : n \in DOMAIN fl.elements /\ fl.elements[n].type \in types

BodyHas(fl, L, types, edges) == HasType(fl, BodyPath(fl, L, edges), types)

\* The exit path of loop L is, or leads to, an element of one of the types.
ExitLeadsTo(fl, L, types) ==
    LET exit == fl.elements[L].noMoreValuesConnector
    IN exit # NONE /\ HasType(fl, Closure(fl, {exit}, {}, 2), types)

\* The findings of one detector in what validate() returned.
FindingsWith(issues, message) == SelectSeq(issues, LAMBDA f : f.message = message)

DmlFindings == FindingsWith(results.logic_structure.critical_issues, DmlInLoopIssue.message)
SoqlFindings == FindingsWith(results.logic_structure.critical_issues, SoqlInLoopIssue.message)
ActionFindings == FindingsWith(results.logic_structure.warnings, ActionInLoopWarning.message)

\* A finding names element n when one of its fields holds the name.
FindingNames(f, n) == \E k \in DOMAIN f : f[k] = n

(***************************************************************************)
(* C1  Exit-path exemption: a loop whose repeat-body path holds no write   *)
(* element and whose exit target is a write, or leads to one, has a body   *)
(* walk that returns false; when no loop of the document has a write on    *)
(* its body path, no write-in-loop finding is reported.                    *)
(***************************************************************************)
C1_ExitPathExemption ==
    /\ \A L \in Loops(flow) :
          (~BodyHas(flow, L, WriteTypes, 0) /\ ExitLeadsTo(flow, L, WriteTypes))
          => ~dml_walk_of_loop(flow, L)
    /\ ( /\ \A L \in Loops(flow) : ~BodyHas(flow, L, WriteTypes, 0)
         /\ \E L \in Loops(flow) : ExitLeadsTo(flow, L, WriteTypes) )
       => DmlFindings = <<>>

\* A loop whose body is an element that returns to the loop and whose exit
\* target is a write, validated with no finding.
C1_Witness ==
    \E L \in Loops(flow) :
        LET loop == flow.elements[L]
        IN /\ loop.nextValueConnector \in DOMAIN flow.elements
           /\ loop.nextValueConnector # L
           /\ flow.elements[loop.nextValueConnector].connector = L
           /\ loop.noMoreValuesConnector \in DOMAIN flow.elements
           /\ flow.elements[loop.noMoreValuesConnector].type \in WriteTypes
           /\ ~BodyHas(flow, L, WriteTypes, 0)
           /\ results.logic_structure.critical_issues = <<>>

(***************************************************************************)
(* C2  Body-path detection, as claimed: a loop whose nextValueConnector    *)
(* target is a write element gives exactly one CRITICAL write-in-loop      *)
(* finding.  (The claim adds that the finding names the loop.)             *)
(***************************************************************************)
BodyEntryIsWrite(fl, L) ==
    /\ fl.elements[L].nextValueConnector \in DOMAIN fl.elements
    /\ fl.elements[fl.elements[L].nextValueConnector].type \in WriteTypes

C2_Original ==
    \A L \in Loops(flow) :
        BodyEntryIsWrite(flow, L)
        => /\ Len(DmlFindings) = 1
           /\ DmlFindings[1].severity = "CRITICAL"

(***************************************************************************)
(* C2  amended: a loop whose nextValueConnector target is a write element  *)
(* other than the loop's noMoreValuesConnector target gives exactly one    *)
(* CRITICAL write-in-loop finding for the document; the finding names no   *)
(* element.                                                                *)
(***************************************************************************)
C2_BodyPathDetection ==
    \A L \in Loops(flow) :
        ( /\ BodyEntryIsWrite(flow, L)
          /\ flow.elements[L].nextValueConnector # flow.elements[L].noMoreValuesConnector )
        => /\ Len(DmlFindings) = 1
           /\ DmlFindings[1].severity = "CRITICAL"
           /\ \A n \in Names : ~FindingNames(DmlFindings[1], n)

\* A loop whose body entry is a recordDeletes element, reported once.
C2_Witness ==
    \E L \in Loops(flow) :
        /\ BodyEntryIsWrite(flow, L)
        /\ flow.elements[flow.elements[L].nextValueConnector].type = "recordDeletes"
        /\ flow.elements[L].noMoreValuesConnector \in Names
        /\ flow.elements[L].nextValueConnector # flow.elements[L].noMoreValuesConnector
        /\ Len(DmlFindings) = 1

(***************************************************************************)
(* C4  Loop-back pattern: when the body of a loop is a chain of elements   *)
(* that are no write, query or action call, each with a single followed    *)
(* connector, and the chain ends at the loop element itself, the three     *)
(* body walks return false; a document all of whose loop bodies are such   *)
(* chains has no write-, query- or action-in-loop finding.                 *)
(***************************************************************************)
RECURSIVE ChainReachesLoop(_, _, _, _)
ChainReachesLoop(fl, cur, L, fuel) ==
    IF cur = L THEN TRUE
    ELSE IF fuel = 0 \/ cur \notin DOMAIN fl.elements THEN FALSE
    ELSE LET elem == fl.elements[cur]
         IN /\ elem.type \notin (WriteTypes \cup QueryTypes \cup CallTypes)
            /\ Cardinality(NonFaultTargets(elem)) = 1
            /\ Len(elem.rules) <= 1
            /\ ChainReachesLoop(fl, CHOOSE t \in NonFaultTargets(elem) : TRUE,
                                L, fuel - 1)

LoopBackBody(fl, L) ==
    /\ fl.elements[L].nextValueConnector \notin {NONE, L}
    /\ ChainReachesLoop(fl, fl.elements[L].nextValueConnector, L,
                        Cardinality(Names))

C4_LoopBackPattern ==
    /\ \A L \in Loops(flow) :
          LoopBackBody(flow, L)
          => /\ ~dml_walk_of_loop(flow, L)
             /\ ~soql_walk_of_loop(flow, L)
             /\ ~action_walk_of_loop(flow, L)
    /\ ( /\ \E L \in Loops(flow) : LoopBackBody(flow, L)
         /\ \A L \in Loops(flow) :
               LoopBackBody(flow, L) \/ flow.elements[L].nextValueConnector = NONE )
       => /\ DmlFindings = <<>>
          /\ SoqlFindings = <<>>
          /\ ActionFindings = <<>>

\* Loop -> assignment -> the loop again, in a document that also holds a
\* write element, validated with no loop finding.
C4_Witness ==
    \E L \in Loops(flow) :
        /\ LoopBackBody(flow, L)
        /\ flow.elements[flow.elements[L].nextValueConnector].type = "assignments"
        /\ \E n \in DOMAIN flow.elements : flow.elements[n].type \in WriteTypes
        /\ results.logic_structure.critical_issues = <<>>
        /\ results.logic_structure.warnings = <<>>

(***************************************************************************)
(* C5  Fault-path exclusion: when an element of the detector's kind is     *)
(* reachable from a loop's body entry only through at least one fault      *)
(* connector, the body walk returns false; when that is so for the writes  *)
(* of every loop of the document, no write-in-loop finding is reported.    *)
(***************************************************************************)
OnlyViaFault(fl, L, types) ==
    ~BodyHas(fl, L, types, 0) /\ BodyHas(fl, L, types, 1)

C5_FaultPathExclusion ==
    /\ \A L \in Loops(flow) :
          /\ OnlyViaFault(flow, L, WriteTypes) => ~dml_walk_of_loop(flow, L)
          /\ OnlyViaFault(flow, L, QueryTypes) => ~soql_walk_of_loop(flow, L)
          /\ OnlyViaFault(flow, L, CallTypes) => ~action_walk_of_loop(flow, L)
    /\ ( /\ \E L \in Loops(flow) : OnlyViaFault(flow, L, WriteTypes)
         /\ \A L \in Loops(flow) : ~BodyHas(flow, L, WriteTypes, 0) )
       => DmlFindings = <<>>

\* A loop whose body entry is a query with a fault connector to a write.
C5_Witness ==
    \E L \in Loops(flow) :
        LET entry == flow.elements[L].nextValueConnector
        IN /\ entry \in DOMAIN flow.elements
           /\ flow.elements[entry].faultConnector \in DOMAIN flow.elements
           /\ flow.elements[flow.elements[entry].faultConnector].type \in WriteTypes
           /\ OnlyViaFault(flow, L, WriteTypes)
           /\ DmlFindings = <<>>

(***************************************************************************)
(* C6  One finding per offending loop, as claimed: the number of           *)
(* write-in-loop findings equals the number of loops whose body walk       *)
(* returns true.                                                           *)
(***************************************************************************)
OffendingLoops(fl) == {L \in Loops(fl) : dml_walk_of_loop(fl, L)}

C6_Original == Len(DmlFindings) = Cardinality(OffendingLoops(flow))

(***************************************************************************)
(* C6  amended: the document gets one write-in-loop finding when at least  *)
(* one loop has a write on its body path and none otherwise, however many  *)
(* loops offend and however many writes a body holds; the finding names no *)
(* loop.                                                                   *)
(***************************************************************************)
C6_OneFindingPerFlow ==
    /\ Len(DmlFindings) =
          (IF \E L \in Loops(flow) : BodyHas(flow, L, WriteTypes, 0) THEN 1 ELSE 0)
    /\ \A i \in DOMAIN DmlFindings :
          \A L \in Loops(flow) : ~FindingNames(DmlFindings[i], L)

\* Two offending loops, or one loop with two writes on its body path, and
\* a single finding.
C6_Witness ==
    /\ Len(DmlFindings) = 1
    /\ \/ Cardinality(OffendingLoops(flow)) = 2
       \/ \E L \in Loops(flow) :
             Cardinality({n \in BodyPath(flow, L, 0) :
                            n \in DOMAIN flow.elements
                            /\ flow.elements[n].type \in WriteTypes}) = 2

(***************************************************************************)
(* Recursive-update detector: reference notions.                           *)
(***************************************************************************)
RecursiveFindings ==
    FindingsWith(results.error_handling.critical_issues, RecursiveUpdateIssue.message)

\* An after-save record-triggered document with its trigger object set.
AfterSaveOn(fl, X) ==
    /\ fl.start.present
    /\ fl.start.triggerType = "RecordAfterSave"
    /\ X # NONE
    /\ fl.start.object = X

\* The start element has an entry filter (filterLogic or a filters child).
HasEntryFilter(fl) == fl.start.filterLogic # NONE \/ fl.start.filters > 0

\* Elements of the given types that write object X.
WritesTo(fl, types, X) ==
    {n \in DOMAIN fl.elements :
        fl.elements[n].type \in types /\ fl.elements[n].object = X}

\* Elements of the given types whose input is the triggering record.
WritesOfRecord(fl, types) ==
    {n \in DOMAIN fl.elements :
        fl.elements[n].type \in types /\ fl.elements[n].inputReference = "$Record"}

(***************************************************************************)
(* C7  Recursive-update guard, as claimed: an after-save document on       *)
(* object X that holds a write to X (of any kind) has exactly one CRITICAL *)
(* recursive-update finding when the start element has no entry filter,    *)
(* and none when it has one.                                               *)
(***************************************************************************)
C7_Original ==
    \A X \in Objects :
        (AfterSaveOn(flow, X) /\ WritesTo(flow, WriteTypes, X) # {})
        => Len(RecursiveFindings) = (IF HasEntryFilter(flow) THEN 0 ELSE 1)

(***************************************************************************)
(* C7  amended: an after-save document on object X that holds a            *)
(* recordUpdates element on X has exactly one CRITICAL recursive-update    *)
(* finding when the start element has no entry filter, and none when it    *)
(* has any (a filterLogic or a filters child); the number of matching      *)
(* updates does not change the count.                                      *)
(***************************************************************************)
C7_RecursiveUpdateGuard ==
    \A X \in Objects :
        (AfterSaveOn(flow, X) /\ WritesTo(flow, {"recordUpdates"}, X) # {})
        => IF HasEntryFilter(flow)
           THEN RecursiveFindings = <<>>
           ELSE /\ Len(RecursiveFindings) = 1
                /\ RecursiveFindings[1].severity = "CRITICAL"

\* Two updates of the trigger object, then a filter added: no finding.
C7_Witness ==
    \E X \in Objects :
        /\ AfterSaveOn(flow, X)
        /\ Cardinality(WritesTo(flow, {"recordUpdates"}, X)) = 2
        /\ flow.start.filters > 0
        /\ flow.start.filterLogic = NONE
        /\ RecursiveFindings = <<>>

\* Two updates of the trigger object and no entry filter: one finding.
C7_WitnessUnguarded ==
    \E X \in Objects :
        /\ AfterSaveOn(flow, X)
        /\ Cardinality(WritesTo(flow, {"recordUpdates"}, X)) = 2
        /\ ~HasEntryFilter(flow)
        /\ Len(RecursiveFindings) = 1

(***************************************************************************)
(* C8  As claimed: with no entry filter, a write of any kind (create,      *)
(* update or delete) whose object is the trigger object, or whose input    *)
(* is the triggering record, produces the recursive-update finding.        *)
(***************************************************************************)
C8_Original ==
    \A X \in Objects :
        ( /\ AfterSaveOn(flow, X)
          /\ ~HasEntryFilter(flow)
          /\ WritesTo(flow, WriteTypes, X) \cup WritesOfRecord(flow, WriteTypes) # {} )
        => Len(RecursiveFindings) = 1

(***************************************************************************)
(* C8  amended: the recursive-update detector considers recordUpdates      *)
(* elements only: the finding is produced exactly when the document is     *)
(* after-save with a trigger object, has no entry filter, and holds a      *)
(* recordUpdates element whose object is the trigger object or whose       *)
(* inputReference is $Record; create and delete elements never produce it. *)
(***************************************************************************)
C8_UpdatesOnly ==
    Len(RecursiveFindings) =
        (IF \E X \in Objects :
               /\ AfterSaveOn(flow, X)
               /\ ~HasEntryFilter(flow)
               /\ WritesTo(flow, {"recordUpdates"}, X)
                    \cup WritesOfRecord(flow, {"recordUpdates"}) # {}
         THEN 1 ELSE 0)

\* A create and a delete of the trigger object, unguarded, and no finding.
C8_Witness ==
    \E X \in Objects :
        /\ AfterSaveOn(flow, X)
        /\ ~HasEntryFilter(flow)
        /\ WritesTo(flow, {"recordCreates"}, X) # {}
        /\ WritesTo(flow, {"recordDeletes"}, X) \cup WritesOfRecord(flow, {"recordDeletes"}) # {}
        /\ RecursiveFindings = <<>>

(***************************************************************************)
(* Orphan detector: reference notions.                                     *)
(***************************************************************************)
\* The names the orphaned-elements advisory reports, and its count.
OrphanAdvisories(res) ==
    SelectSeq(res.architecture.advisory,
              LAMBDA a : a.suggestion = "Remove or connect orphaned elements")

OrphanNames(res) ==
    IF OrphanAdvisories(res) = <<>> THEN {}
    ELSE OrphanAdvisories(res)[1].names

OrphanCount(res) ==
    IF OrphanAdvisories(res) = <<>> THEN 0
    ELSE OrphanAdvisories(res)[1].count

\* n is the target of some connector of the document: ordinary,
\* decision-rule, default, fault, loop repeat-body or loop exit.
TargetOfConnector(fl, n) ==
    \E m \in DOMAIN fl.elements :
        LET e == fl.elements[m]
        IN \/ e.connector = n
           \/ \E i \in DOMAIN e.rules : e.rules[i] = n
           \/ e.defaultConnector = n
           \/ e.faultConnector = n
           \/ e.nextValueConnector = n
           \/ e.noMoreValuesConnector = n

IsStartTarget(fl, n) == fl.start.present /\ fl.start.connector = n

AddsUntargeted(n) ==
    /\ n \notin DOMAIN flow.elements
    /\ DOMAIN flow'.elements = DOMAIN flow.elements \cup {n}
    /\ ~TargetOfConnector(flow', n)
    /\ ~IsStartTarget(flow', n)

C9_Original ==
    [][\A n \in Names :
          AddsUntargeted(n) => OrphanCount(results') = OrphanCount(results) + 1]_vars

(***************************************************************************)
(* C9  amended: adding one element that no connector targets, and whose    *)
(* own connectors target no element that was orphaned before, increases    *)
(* the number of orphan findings by exactly one (the new element is the    *)
(* one added finding); then adding a connector from any element to an      *)
(* orphaned element removes exactly that element's finding.                *)
(***************************************************************************)
\* This step gives an existing element, or the start element, one more
\* connector, to target t.
ConnectsTo(t) ==
    \/ \E m \in Names, slot \in AllSlots : SetConnector(m, slot, t)
    \/ \E m \in Names : AddRule(m, t)
    \/ SetStartConnector(t)

C9_OrphanDelta ==
    [][\A n \in Names :
          /\ ( /\ AddsUntargeted(n)
               /\ AnyTargets(flow'.elements[n]) \cap OrphanNames(results) = {} )
             => /\ OrphanNames(results') = OrphanNames(results) \cup {n}
                /\ OrphanCount(results') = OrphanCount(results) + 1
          /\ (ConnectsTo(n) /\ n \in OrphanNames(results))
             => /\ OrphanNames(results') = OrphanNames(results) \ {n}
                /\ OrphanCount(results') = OrphanCount(results) - 1]_vars

\* An orphaned element has been added to a document that already had an
\* orphan, and then connected: one orphan is left.
C9_Witness ==
    /\ Cardinality(DOMAIN flow.elements) = 3
    /\ OrphanCount(results) = 1
    /\ \E m, n \in DOMAIN flow.elements :
          /\ m # n
          /\ TargetOfConnector(flow, n)
          /\ n \in AnyTargets(flow.elements[m])

RunAgreesWithDetector ==
    run.pc = "done"
    => run.result = (IF _has_dml_in_loops(flow) THEN "True" ELSE "False")


(***************************************************************************)
(* Unused-variable detector: reference notions.                            *)
(***************************************************************************)
UnusedAdvisories(res) ==
    SelectSeq(res.architecture.advisory,
              LAMBDA a : a.suggestion = "Remove unused variables to reduce clutter")

UnusedNames(res) ==
    IF UnusedAdvisories(res) = <<>> THEN {}
    ELSE UnusedAdvisories(res)[1].names

UnusedCount(res) ==
    IF UnusedAdvisories(res) = <<>> THEN 0
    ELSE UnusedAdvisories(res)[1].count

\* Identifier v occurs in a reference of the document: a node whose text
\* is v or v.<field>, whatever its tag, the inputReference of a record
\* element, or a merge field {!v} of a formula.
OccursInReference(fl, v) ==
    \/ \E r \in fl.references : r.text # <<>> /\ r.text[1] = v
    \/ \E n \in DOMAIN fl.elements : fl.elements[n].inputReference = v
    \/ \E e \in fl.formulas : \E f \in e : f.name = v /\ ~f.global

(***************************************************************************)
(* C11  Unused-identifier set algebra: the identifiers reported unused are *)
(* exactly the declared ones that occur in no reference of the document;   *)
(* each is counted once.                                                   *)
(***************************************************************************)
C11_UnusedSetAlgebra ==
    LET expected == {v \in flow.variables : ~OccursInReference(flow, v)}
    IN /\ UnusedNames(results) = expected
       /\ UnusedCount(results) = Cardinality(expected)


MalformedLoop(fl, L) == L \in Loops(fl) /\ fl.elements[L].nextValueConnector = NONE

C14_MalformedLoop ==
    \A L \in Loops(flow) :
        MalformedLoop(flow, L)
        => /\ ~dml_walk_of_loop(flow, L)
           /\ ~soql_walk_of_loop(flow, L)
           /\ ~action_walk_of_loop(flow, L)
           /\ Len(DmlFindings) =
                 (IF \E M \in Loops(flow) \ {L} : BodyHas(flow, M, WriteTypes, 0)
                  THEN 1 ELSE 0)
           /\ Len(SoqlFindings) =
                 (IF \E M \in Loops(flow) \ {L} : BodyHas(flow, M, QueryTypes, 0)
                  THEN 1 ELSE 0)
           /\ Len(ActionFindings) =
                 (IF \E M \in Loops(flow) \ {L} : BodyHas(flow, M, CallTypes, 0)
                  THEN 1 ELSE 0)

\* A loop without nextValueConnector declared before a loop whose body
\* entry is a write, which is reported.
C14_Witness ==
    \E L, M \in Loops(flow) :
        /\ MalformedLoop(flow, L)
        /\ \E i, j \in DOMAIN NameOrder : i < j /\ NameOrder[i] = L /\ NameOrder[j] = M
        /\ BodyEntryIsWrite(flow, M)
        /\ Len(DmlFindings) = 1


(***************************************************************************)
(* C15  Dangling reference: a target that names no element of the document *)
(* makes the walk return false for that branch only.  A loop whose body    *)
(* entry is dangling has walks that return false; in a loop whose body or  *)
(* exit has a dangling target the sibling branches are still explored: the *)
(* walk returns true exactly when an element of the detector's kind is on  *)
(* the body path.                                                          *)
(***************************************************************************)
Dangling(fl, t) == t # NONE /\ t \notin DOMAIN fl.elements

\* The body entry, the exit target or a followed connector on the body
\* path of loop L is dangling.
HasDangling(fl, L) ==
    \/ Dangling(fl, fl.elements[L].nextValueConnector)
    \/ Dangling(fl, fl.elements[L].noMoreValuesConnector)
    \/ \E n \in BodyPath(fl, L, 0) : Dangling(fl, n)

C15_DanglingReference ==
    \A L \in Loops(flow) :
        /\ Dangling(flow, flow.elements[L].nextValueConnector)
           => /\ ~dml_walk_of_loop(flow, L)
              /\ ~soql_walk_of_loop(flow, L)
              /\ ~action_walk_of_loop(flow, L)
        /\ HasDangling(flow, L)
           => /\ dml_walk_of_loop(flow, L) <=> BodyHas(flow, L, WriteTypes, 0)
              /\ soql_walk_of_loop(flow, L) <=> BodyHas(flow, L, QueryTypes, 0)
              /\ action_walk_of_loop(flow, L) <=> BodyHas(flow, L, CallTypes, 0)
              /\ _has_dml_in_loops(flow) \in BOOLEAN
              /\ (DmlFindings # <<>>) <=> _has_dml_in_loops(flow)

\* A loop whose body entry is a decision with a rule to a dangling name
\* and a default connector to a write: the write is still found.
C15_Witness ==
    \E L \in Loops(flow) :
        LET entry == flow.elements[L].nextValueConnector
        IN /\ entry \in DOMAIN flow.elements
           /\ flow.elements[entry].type = "decisions"
           /\ \E i \in DOMAIN flow.elements[entry].rules :
                 Dangling(flow, flow.elements[entry].rules[i])
           /\ flow.elements[entry].defaultConnector \in DOMAIN flow.elements
           /\ flow.elements[flow.elements[entry].defaultConnector].type \in WriteTypes
           /\ Len(DmlFindings) = 1


(***************************************************************************)
(* C16  Severity mapping: a write or a query on a loop's body path is      *)
(* reported as a critical issue of severity CRITICAL; an action call on a  *)
(* loop's body path is reported as a warning of severity HIGH, and never   *)
(* among the critical issues.                                              *)
(***************************************************************************)
C16_SeverityMapping ==
    LET critical == results.logic_structure.critical_issues
    IN /\ (\E L \in Loops(flow) : BodyHas(flow, L, WriteTypes, 0))
          => /\ Len(DmlFindings) = 1
             /\ DmlFindings[1].severity = "CRITICAL"
       /\ (\E L \in Loops(flow) : BodyHas(flow, L, QueryTypes, 0))
          => /\ Len(SoqlFindings) = 1
             /\ SoqlFindings[1].severity = "CRITICAL"
       /\ (\E L \in Loops(flow) : BodyHas(flow, L, CallTypes, 0))
          => /\ Len(ActionFindings) = 1
             /\ ActionFindings[1].severity = "HIGH"
       /\ FindingsWith(critical, ActionInLoopWarning.message) = <<>>
       /\ \A i \in DOMAIN critical : critical[i].severity = "CRITICAL"

\* A document reported for a query and an action call in loops at once.
C16_Witness ==
    /\ Len(SoqlFindings) = 1
    /\ Len(ActionFindings) = 1
    /\ ActionFindings[1].severity = "HIGH"
    /\ \E L \in Loops(flow) : BodyHas(flow, L, CallTypes, 0)


(***************************************************************************)
(* C17  Only critical checks block: the command reports DEPLOYMENT BLOCKED *)
(* and exits with status 1 exactly when a write or a query is on a loop's  *)
(* body path or an after-save document updates its trigger record without  *)
(* entry filter; otherwise (whatever the action-call, unused-variable and  *)
(* orphaned-element checks found) it reports DEPLOYMENT APPROVED and exits *)
(* with status 0.                                                          *)
(***************************************************************************)
CriticalDetected(fl) ==
    \/ \E L \in Loops(fl) : BodyHas(fl, L, WriteTypes, 0)
    \/ \E L \in Loops(fl) : BodyHas(fl, L, QueryTypes, 0)
    \/ \E X \in Objects :
          /\ AfterSaveOn(fl, X)
          /\ ~HasEntryFilter(fl)
          /\ WritesTo(fl, {"recordUpdates"}, X)
               \cup WritesOfRecord(fl, {"recordUpdates"}) # {}

C17_OnlyCriticalBlocks ==
    run.pc = "exited"
    => IF CriticalDetected(flow)
       THEN /\ run.report = "DEPLOYMENT BLOCKED - Fix critical issues first"
            /\ run.exit_code = 1
       ELSE /\ run.report = "DEPLOYMENT APPROVED (advisory recommendations provided)"
            /\ run.exit_code = 0

\* The command has exited with 0 on a document with an action call in a
\* loop, an unused variable and an orphaned element.
C17_Witness ==
    /\ run.pc = "exited"
    /\ run.exit_code = 0
    /\ Len(ActionFindings) = 1
    /\ UnusedCount(results) = 1
    /\ OrphanCount(results) = 1


(***************************************************************************)
(* C18  The post-tool hook is advisory: whatever its input (invalid JSON,  *)
(* a failed tool response, a path that is no flow file, a flow file whose  *)
(* validation raises, a flow with critical issues), main prints one JSON   *)
(* object whose "continue" member is true and returns 0.                   *)
(***************************************************************************)
C18_HookIsAdvisory ==
    run.pc = "hook_exited"
    => /\ Len(run.printed) = 1
       /\ run.printed[1].continue = TRUE
       /\ run.exit_code = 0

\* The hook has validated a flow with a critical issue.
C18_Witness ==
    /\ run.pc = "hook_exited"
    /\ run.printed[1].output # <<>>
    /\ run.printed[1].output[1] = "Flow Validation"
    /\ results = validate(flow)
    /\ critical_issues(results) # <<>>


(***************************************************************************)
(* C19  Walker correctness: for every document and loop L with exit target *)
(* X, the walk from L's body entry returns true exactly when a path of     *)
(* standard, decision-rule or default connectors leads from the body entry *)
(* through defined elements other than L and X to an element of the        *)
(* detector's kind (write, query or action call).                          *)
(***************************************************************************)
\* p is a path of followed connectors from the body entry of L through
\* defined elements other than L and its exit target.
IsBodyWalk(fl, L, p) ==
    /\ p # <<>>
    /\ p[1] = fl.elements[L].nextValueConnector
    /\ \A i \in DOMAIN p :
          /\ p[i] \in DOMAIN fl.elements
          /\ p[i] # L
          /\ p[i] # fl.elements[L].noMoreValuesConnector
    /\ \A i \in 1..(Len(p) - 1) : p[i + 1] \in NonFaultTargets(fl.elements[p[i]])

\* Paths without repetition are enough: a path with a repeated element can
\* be shortened to one without.
SimplePaths ==
    {p \in UNION {[1..k -> Names] : k \in 1..Cardinality(Names)} :
        \A i, j \in DOMAIN p : i # j => p[i] # p[j]}

PathTo(fl, L, types) ==
    \E p \in SimplePaths :
        IsBodyWalk(fl, L, p) /\ fl.elements[p[Len(p)]].type \in types

C19_WalkerCorrectness ==
    \A L \in Loops(flow) :
        /\ dml_walk_of_loop(flow, L) <=> PathTo(flow, L, WriteTypes)
        /\ soql_walk_of_loop(flow, L) <=> PathTo(flow, L, QueryTypes)
        /\ action_walk_of_loop(flow, L) <=> PathTo(flow, L, CallTypes)

\* A write found two connectors away from the body entry, through a
\* decision's default connector, the decision's rule leading elsewhere.
C19_Witness ==
    \E L \in Loops(flow) :
        LET entry == flow.elements[L].nextValueConnector
        IN /\ entry \in DOMAIN flow.elements
           /\ flow.elements[entry].type = "decisions"
           /\ flow.elements[entry].rules # <<>>
           /\ flow.elements[entry].defaultConnector \in DOMAIN flow.elements
           /\ flow.elements[flow.elements[entry].defaultConnector].type \in WriteTypes
           /\ PathTo(flow, L, WriteTypes)
           /\ Len(DmlFindings) = 1

(***************************************************************************)
(* C20  Sentinel precedence: the visited, loop and exit tests come before  *)
(* the type test, so the walk returns false at the loop's exit target even *)
(* when that element is of the detector's kind and is reached from inside  *)
(* the body; a loop whose body entry and exit target are the same write    *)
(* element has a walk that returns false.                                  *)
(***************************************************************************)
\* The exit target of L is an element of one of the types and is reached
\* from the body: it is the body entry or the target of a followed
\* connector of an element on the body path.
ExitReachedFromBody(fl, L, types) ==
    LET loop == fl.elements[L]
        exit == loop.noMoreValuesConnector
    IN /\ exit \in DOMAIN fl.elements
       /\ fl.elements[exit].type \in types
       /\ \/ loop.nextValueConnector = exit
          \/ \E n \in BodyPath(fl, L, 0) \cap DOMAIN fl.elements :
                exit \in NonFaultTargets(fl.elements[n])

\* No element of the types other than the exit target is on the body path.
OnlyExitMatches(fl, L, types) ==
    \A n \in BodyPath(fl, L, 0) \cap DOMAIN fl.elements :
        fl.elements[n].type \notin types

C20_SentinelPrecedence ==
    \A L \in Loops(flow) :
        /\ (ExitReachedFromBody(flow, L, WriteTypes) /\ OnlyExitMatches(flow, L, WriteTypes))
           => ~dml_walk_of_loop(flow, L)
        /\ (ExitReachedFromBody(flow, L, QueryTypes) /\ OnlyExitMatches(flow, L, QueryTypes))
           => ~soql_walk_of_loop(flow, L)
        /\ (ExitReachedFromBody(flow, L, CallTypes) /\ OnlyExitMatches(flow, L, CallTypes))
           => ~action_walk_of_loop(flow, L)
        /\ ( /\ flow.elements[L].nextValueConnector = flow.elements[L].noMoreValuesConnector
             /\ BodyEntryIsWrite(flow, L)
             /\ Cardinality(Loops(flow)) = 1 )
           => DmlFindings = <<>>

\* A single loop whose body entry and exit target are the same write
\* element, validated with no finding.
C20_Witness ==
    \E L \in Loops(flow) :
        /\ Cardinality(Loops(flow)) = 1
        /\ BodyEntryIsWrite(flow, L)
        /\ flow.elements[L].nextValueConnector = flow.elements[L].noMoreValuesConnector
        /\ DmlFindings = <<>>


(***************************************************************************)
(* SpecBranch: documents of one loop and up to three more elements,        *)
(* drafted with no validation in between, on which _has_dml_in_loops is    *)
(* then run.                                                               *)
(***************************************************************************)
BranchNameOrder == <<"e1", "e2", "e3", "e4">>

BranchNames == {BranchNameOrder[i] : i \in DOMAIN BranchNameOrder}

BranchSpecTypes == {"assignments", "decisions", "recordCreates", "loops"}

\* Largest number of connector targets in a document of SpecBranch.
MaxBranchConnectors == 4

\* The walkers look elements up by name and only compare names, so the
\* documents are enumerated up to renaming and reordering: the loop is
\* declared first, the other elements in the order of BranchNameOrder and
\* in non-decreasing order of their type's place in element_types.
BranchAddElement(n, t) ==
    /\ run.pc = "idle"
    /\ n \notin DOMAIN flow.elements
    /\ \E i \in DOMAIN BranchNameOrder :
          /\ BranchNameOrder[i] = n
          /\ \A j \in 1..(i - 1) : BranchNameOrder[j] \in DOMAIN flow.elements
    /\ (t = "loops") <=> (flow.elements = <<>>)
    /\ \A m \in DOMAIN flow.elements \ Loops(flow) :
          TypeIndex(flow.elements[m].type) <= TypeIndex(t)
    /\ flow' = [flow EXCEPT !.elements = (n :> NewElement(t)) @@ @]
    /\ UNCHANGED <<results, run>>

BranchSetConnector(n, slot, tgt) ==
    /\ run.pc = "idle"
    /\ n \in DOMAIN flow.elements
    /\ slot \in SlotsOf(flow.elements[n].type)
    /\ flow.elements[n][slot] = NONE
    /\ ConnectorCount(flow) < MaxBranchConnectors
    /\ flow' = [flow EXCEPT !.elements[n][slot] = tgt]
    /\ UNCHANGED <<results, run>>

BranchAddRule(n, tgt) ==
    /\ run.pc = "idle"
    /\ n \in DOMAIN flow.elements
    /\ flow.elements[n].type = "decisions"
    /\ Len(flow.elements[n].rules) < MaxRules
    /\ ConnectorCount(flow) < MaxBranchConnectors
    /\ flow' = [flow EXCEPT !.elements[n].rules = Append(@, tgt)]
    /\ UNCHANGED <<results, run>>

\* _has_dml_in_loops() is called on the drafted document.
Detect ==
    /\ run.pc = "idle"
    /\ run' = [run EXCEPT !.pc = "done",
                          !.runs = 1,
                          !.result = IF _has_dml_in_loops(flow)
                                     THEN "True" ELSE "False"]
    /\ UNCHANGED <<flow, results>>

NextBranch ==
    \/ \E n \in BranchNames, t \in BranchSpecTypes : BranchAddElement(n, t)
    \/ \E n \in BranchNames, slot \in AllSlots \ {"faultConnector"},
          tgt \in BranchNames : BranchSetConnector(n, slot, tgt)
    \/ \E n \in BranchNames, tgt \in BranchNames : BranchAddRule(n, tgt)
    \/ Detect

\* A drafted document is eventually validated.
SpecBranch == Init /\ [][NextBranch]_vars /\ WF_vars(Detect)

(***************************************************************************)
(* C21  Clone-on-branch is needed for correctness: there is a document     *)
(* with diverging decision branches on which a walker that shares one      *)
(* mutable visited set across sibling branches returns false while the     *)
(* walker that copies the set per branch returns true.                     *)
(***************************************************************************)
\* The walker as it would be with `visited` passed on instead of
\* `visited.copy()` (line 776): one set object, mutated by every call.
\* The value is <<returned, visited after the call>>.
RECURSIVE has_dml_in_path_shared(_, _, _, _, _)
RECURSIVE shared_for_loop(_, _, _, _, _, _)
has_dml_in_path_shared(current, loop_name, exit_target, visited, element_map) ==
    IF dml_path_stops(current, loop_name, exit_target, visited)
    THEN <<FALSE, visited>>
    ELSE LET added == visited \cup {current}
         IN IF current \notin DOMAIN element_map THEN <<FALSE, added>>
            ELSE IF is_dml_type(element_map[current][1]) THEN <<TRUE, added>>
            ELSE shared_for_loop(dml_connectors(element_map[current][2]), 1,
                                 loop_name, exit_target, added, element_map)

\* for next_target in connectors, from the i-th on.
shared_for_loop(connectors, i, loop_name, exit_target, visited, element_map) ==
    IF i > Len(connectors) THEN <<FALSE, visited>>
    ELSE LET r == has_dml_in_path_shared(connectors[i], loop_name, exit_target,
                                         visited, element_map)
         IN IF r[1] THEN r
            ELSE shared_for_loop(connectors, i + 1, loop_name, exit_target,
                                 r[2], element_map)

shared_walk_of_loop(fl, loop_name) ==
    LET loop == fl.elements[loop_name]
    IN /\ loop.nextValueConnector # NONE
       /\ has_dml_in_path_shared(loop.nextValueConnector, loop_name,
                                 loop.noMoreValuesConnector, {},
                                 build_element_map(fl))[1]

\* The sharing walker misses a write that the copying walker finds.
SharedMisses(fl) ==
    \E L \in Loops(fl) : dml_walk_of_loop(fl, L) /\ ~shared_walk_of_loop(fl, L)

\* The claim as stated: some document shows the difference.
C21_Original == <>SharedMisses(flow)

\* As amended: on every document and loop the two walkers return the same
\* value (a name met again was either explored to the end without a match
\* or is an ancestor of the call).
C21_SharedVisitedAgrees ==
    \A L \in Loops(flow) : dml_walk_of_loop(flow, L) <=> shared_walk_of_loop(flow, L)

\* A decision whose rule branch and default branch diverge and meet again:
\* the second branch reaches an element the first branch has visited, so the
\* sharing walker cuts the second branch where the copying walker explores
\* it again; the document has been validated.
C21_Witness ==
    /\ run.pc = "done"
    /\ \E L \in Loops(flow), D \in DOMAIN flow.elements :
          LET dec == flow.elements[D]
          IN /\ flow.elements[L].nextValueConnector = D
             /\ dec.type = "decisions"
             /\ Len(dec.rules) = 1
             /\ dec.rules[1] \in DOMAIN flow.elements
             /\ dec.defaultConnector \in DOMAIN flow.elements
             /\ dec.rules[1] \notin {dec.defaultConnector, L, D}
             /\ dec.defaultConnector \notin {L, D}
             /\ flow.elements[dec.rules[1]].type = "assignments"
             /\ flow.elements[dec.rules[1]].connector = dec.defaultConnector
             /\ flow.elements[dec.defaultConnector].type = "assignments"
             /\ dec.defaultConnector \in
                    has_dml_in_path_shared(dec.rules[1], L,
                                           flow.elements[L].noMoreValuesConnector,
                                           {D}, build_element_map(flow))[2]


(***************************************************************************)
(* C22  Sibling isolation: every recursive call gets its own copy of the   *)
(* visited set, so while a call is in its for-loop over connectors its own *)
(* set never changes, whatever the calls it makes add to theirs, and each  *)
(* call it makes starts from exactly that set.                             *)
(***************************************************************************)
\* The visited set of the i-th frame of execution r.
VisitedOf(r, i) == r.heap[r.stack[i].visited]

C22_SiblingIsolation ==
    [][ /\ \A i \in DOMAIN run.stack \cap DOMAIN run'.stack :
              (run.pc = "walk" /\ run'.pc = "walk")
              => VisitedOf(run', i) = VisitedOf(run, i)
        /\ (run.pc = "walk" /\ run'.pc = "walk"
            /\ Len(run'.stack) = Len(run.stack) + 1)
           => VisitedOf(run', Len(run'.stack))
                 = VisitedOf(run, Len(run.stack))
                   \cup {run'.stack[Len(run'.stack)].current}
        /\ \A i, j \in DOMAIN run.stack :
              i # j => run.stack[i].visited # run.stack[j].visited
      ]_vars

\* The body entry's for-loop is at its second connector after the call on
\* the first one added an element of its own to its set, ran its for-loop
\* and returned False; the body entry's set holds the body entry alone.
C22_Witness ==
    /\ run.pc = "walk"
    /\ Len(run.stack) = 1
    /\ run.ret = NONE
    /\ run.stack[1].idx = 2
    /\ Len(run.stack[1].connectors) = 2
    /\ run.calls = 2
    /\ run.stack[1].connectors[1] \in DOMAIN flow.elements
    /\ run.stack[1].connectors[1] \notin {run.loop_name, run.exit_target,
                                           run.stack[1].current}
    /\ VisitedOf(run, 1) = {run.stack[1].current}


(***************************************************************************)
(* C23  One walker, three predicates: for every document, loop and start   *)
(* element, _has_dml_in_path, _has_soql_in_path and _has_action_in_path    *)
(* each return what one walk parameterized by the set of matching types    *)
(* returns for the write, query and call types.                            *)
(***************************************************************************)
\* The parameterized walk: False at a visited name, the loop, the exit
\* target or an undefined name, True at an element of one of the kinds,
\* else the disjunction over the non-fault connector targets.
RECURSIVE WalkFor(_, _, _, _, _, _)
WalkFor(kinds, start, loop_name, exit_target, visited, fl) ==
    IF start \in visited \cup {loop_name, exit_target} THEN FALSE
    ELSE IF start \notin DOMAIN fl.elements THEN FALSE
    ELSE IF fl.elements[start].type \in kinds THEN TRUE
    ELSE \E next_target \in NonFaultTargets(fl.elements[start]) :
            WalkFor(kinds, next_target, loop_name, exit_target,
                    visited \cup {start}, fl)

C23_OneWalker ==
    \A L \in Loops(flow), start \in Names :
        LET exit_target == flow.elements[L].noMoreValuesConnector
            element_map == build_element_map(flow)
        IN /\ _has_dml_in_path(start, L, exit_target, {}, element_map)
                = WalkFor(WriteTypes, start, L, exit_target, {}, flow)
           /\ _has_soql_in_path(start, L, exit_target, {}, element_map)
                = WalkFor(QueryTypes, start, L, exit_target, {}, flow)
           /\ _has_action_in_path(start, L, exit_target, {}, element_map)
                = WalkFor(CallTypes, start, L, exit_target, {}, flow)

\* One body in which the three walks differ only by what they look for: a
\* query followed by a call, and no write.  The query walk stops at the
\* body entry, the call walk goes through it.
C23_Witness ==
    \E L \in Loops(flow) :
        LET entry == flow.elements[L].nextValueConnector
        IN /\ entry \in DOMAIN flow.elements
           /\ flow.elements[entry].type = "recordLookups"
           /\ soql_walk_of_loop(flow, L)
           /\ action_walk_of_loop(flow, L)
           /\ ~dml_walk_of_loop(flow, L)
           /\ Len(SoqlFindings) = 1
           /\ Len(ActionFindings) = 1


(***************************************************************************)
(* C24  Nested loops are dead ends: a walk that reaches a Loop element     *)
(* other than the one it started from follows neither its body connector   *)
(* nor its exit connector, so a write placed after the nested loop's exit  *)
(* connector, inside the outer body, gives no finding for the outer loop.  *)
(***************************************************************************)
\* The body entry of loop L is another loop.
EntersNestedLoop(fl, L) ==
    /\ fl.elements[L].nextValueConnector \in Loops(fl)
    /\ fl.elements[L].nextValueConnector # L

\* A write that is the target of the nested loop's exit connector and leads
\* back to the outer loop L.
WriteAfterNestedLoop(fl, L) ==
    LET inner == fl.elements[fl.elements[L].nextValueConnector]
    IN /\ inner.noMoreValuesConnector \in DOMAIN fl.elements
       /\ fl.elements[inner.noMoreValuesConnector].type \in WriteTypes
       /\ fl.elements[inner.noMoreValuesConnector].connector = L

C24_NestedLoopDeadEnd ==
    /\ \A L \in Loops(flow) :
          EntersNestedLoop(flow, L)
          => /\ ~dml_walk_of_loop(flow, L)
             /\ ~soql_walk_of_loop(flow, L)
             /\ ~action_walk_of_loop(flow, L)
    /\ (\A L \in Loops(flow) :
           flow.elements[L].nextValueConnector # NONE => EntersNestedLoop(flow, L))
       => DmlFindings = <<>>

\* Outer loop -> nested loop -(exit)-> write -> outer loop: the write runs
\* once per iteration of the outer loop and nothing is reported.
C24_Witness ==
    \E L \in Loops(flow) :
        /\ EntersNestedLoop(flow, L)
        /\ WriteAfterNestedLoop(flow, L)
        /\ flow.elements[flow.elements[L].nextValueConnector].nextValueConnector = NONE
        /\ DmlFindings = <<>>


(***************************************************************************)
(* C25  A loop is reported only for an operation that can repeat:          *)
(* whenever a loop-based detector reports, some matching element reachable *)
(* from a loop's body entry has a path along followed connectors leading   *)
(* back to that loop.                                                      *)
(***************************************************************************)
\* Element n has a path of followed connectors leading to loop L.
LeadsBackTo(fl, n, L) == L \in Closure(fl, {n}, {}, 0)

\* An element of one of the types on the body path of L that lies on a
\* cycle through L.
RepeatingMatch(fl, L, types) ==
    \E n \in BodyPath(fl, L, 0) \cap DOMAIN fl.elements :
        fl.elements[n].type \in types /\ LeadsBackTo(fl, n, L)

\* The claim as stated.
C25_Original ==
    /\ DmlFindings # <<>> => \E L \in Loops(flow) : RepeatingMatch(flow, L, WriteTypes)
    /\ SoqlFindings # <<>> => \E L \in Loops(flow) : RepeatingMatch(flow, L, QueryTypes)
    /\ ActionFindings # <<>> => \E L \in Loops(flow) : RepeatingMatch(flow, L, CallTypes)

\* As amended: a detector reports only when a matching element is on some
\* loop's body path, and it reports such an element whether or not it
\* leads back to the loop.
C25_ReportedWithoutCycle ==
    /\ DmlFindings # <<>> => \E L \in Loops(flow) : BodyHas(flow, L, WriteTypes, 0)
    /\ SoqlFindings # <<>> => \E L \in Loops(flow) : BodyHas(flow, L, QueryTypes, 0)
    /\ ActionFindings # <<>> => \E L \in Loops(flow) : BodyHas(flow, L, CallTypes, 0)
    /\ \A L \in Loops(flow) :
          /\ (BodyHas(flow, L, WriteTypes, 0) /\ ~RepeatingMatch(flow, L, WriteTypes))
             => Len(DmlFindings) = 1
          /\ (BodyHas(flow, L, QueryTypes, 0) /\ ~RepeatingMatch(flow, L, QueryTypes))
             => Len(SoqlFindings) = 1
          /\ (BodyHas(flow, L, CallTypes, 0) /\ ~RepeatingMatch(flow, L, CallTypes))
             => Len(ActionFindings) = 1

\* A loop whose body entry is a write with no connector at all: the branch
\* never returns to the loop, and the write is reported.
C25_Witness ==
    /\ Len(DmlFindings) = 1
    /\ \A L \in Loops(flow) : ~RepeatingMatch(flow, L, WriteTypes)
    /\ \E L \in Loops(flow) :
          /\ BodyEntryIsWrite(flow, L)
          /\ NonFaultTargets(flow.elements[flow.elements[L].nextValueConnector]) = {}


(***************************************************************************)
(* C26  Orphan detection is by incoming reference, not by reachability     *)
(* from the start: an element that is the target of any connector (a fault *)
(* connector, its own connector, a connector of an unreachable element) is *)
(* never reported as orphaned, even when no path from the start element    *)
(* reaches it.                                                             *)
(***************************************************************************)
\* The names reached from the start element along connectors of any kind.
ReachableFromStart(fl) ==
    IF fl.start.present /\ fl.start.connector # NONE
    THEN Closure(fl, {fl.start.connector}, {}, 2)
    ELSE {}

C26_OrphanByIncomingReference ==
    \A n \in DOMAIN flow.elements :
        /\ TargetOfConnector(flow, n) => n \notin OrphanNames(results)
        /\ n \in OrphanNames(results) => n \notin ReachableFromStart(flow)

\* The start element leads to one element; of two others that no path from
\* the start reaches, one is the fault target of the other: only the
\* untargeted one is reported.
C26_Witness ==
    /\ flow.start.connector \in DOMAIN flow.elements
    /\ \E m, n \in DOMAIN flow.elements \ ReachableFromStart(flow) :
          /\ m # n
          /\ flow.elements[m].faultConnector = n
          /\ OrphanNames(results) = {m}


(***************************************************************************)
(* simulate_flow.py, FlowSimulator: the analysis of loops.                 *)
(***************************************************************************)
\* element_types of FlowSimulator._build_element_map.
simulator_element_types ==
    <<"assignments", "decisions", "recordCreates", "recordUpdates",
      "recordDeletes", "recordLookups", "loops", "subflows", "screens">>

\* FlowSimulator._build_element_map
simulator_build_element_map(fl) ==
    [n \in {m \in DOMAIN fl.elements :
               fl.elements[m].type \in Range(simulator_element_types)}
        |-> <<fl.elements[n].type, fl.elements[n]>>]

RECURSIVE _check_path_for_dml_in_loop(_, _, _, _, _)
_check_path_for_dml_in_loop(current, loop_name, exit_target, visited, element_map) ==
    IF current \in visited THEN FALSE
    ELSE IF current = loop_name THEN FALSE
    ELSE IF current = exit_target THEN FALSE
    ELSE IF current \notin DOMAIN element_map THEN FALSE
    ELSE IF element_map[current][1] \in {"recordCreates", "recordUpdates", "recordDeletes"}
    THEN TRUE
    ELSE LET elem == element_map[current][2]
             connectors ==
                (IF elem.connector # NONE THEN <<elem.connector>> ELSE <<>>)
                \o SelectSeq(elem.rules, LAMBDA t : t # NONE)
                \o (IF elem.defaultConnector # NONE
                    THEN <<elem.defaultConnector>> ELSE <<>>)
         IN \E i \in 1..Len(connectors) :
                _check_path_for_dml_in_loop(connectors[i], loop_name, exit_target,
                                            visited \cup {current}, element_map)

_has_dml_in_loop_body(fl, loop_name) ==
    LET loop == fl.elements[loop_name]
    IN /\ loop.nextValueConnector # NONE
       /\ _check_path_for_dml_in_loop(loop.nextValueConnector, loop_name,
                                      loop.noMoreValuesConnector, {},
                                      simulator_build_element_map(fl))

\* count = 1 for a DML element, plus the count along the standard
\* connector (the only connector followed).
RECURSIVE _count_dml_in_path(_, _, _, _, _)
_count_dml_in_path(current, loop_name, exit_target, visited, element_map) ==
    IF current \in visited \/ current = loop_name \/ current = exit_target THEN 0
    ELSE IF current \notin DOMAIN element_map THEN 0
    ELSE LET elem == element_map[current][2]
             count == IF element_map[current][1]
                           \in {"recordCreates", "recordUpdates", "recordDeletes"}
                      THEN 1 ELSE 0
         IN IF elem.connector # NONE
            THEN count + _count_dml_in_path(elem.connector, loop_name, exit_target,
                                            visited \cup {current}, element_map)
            ELSE count

_count_dml_in_loop_body(fl, loop_name) ==
    LET loop == fl.elements[loop_name]
    IN IF loop.nextValueConnector = NONE THEN 0
       ELSE _count_dml_in_path(loop.nextValueConnector, loop_name,
                               loop.noMoreValuesConnector, {},
                               simulator_build_element_map(fl))

\* FlowSimulator.__init__(xml_path, num_records=200)
num_records == 200

\* _analyze_loops: one error per loop whose body has DML, with the numbers
\* its message reports.
_analyze_loops(fl) ==
    {[loop_name |-> L,
      iterations |-> num_records,
      dml_in_loop |-> _count_dml_in_loop_body(fl, L),
      total_dml_from_loop |-> _count_dml_in_loop_body(fl, L) * num_records] :
        L \in {M \in Loops(fl) : _has_dml_in_loop_body(fl, M)}}

(***************************************************************************)
(* SpecSim: a document is drafted, then the simulator analyses its loops.  *)
(***************************************************************************)
SimSpecTypes == {"assignments", "decisions", "recordCreates", "loops", "actionCalls"}

\* simulate() on a standard flow: run.report holds self.errors.
Simulate ==
    /\ run.pc = "idle"
    /\ run' = [run EXCEPT !.pc = "simulated", !.report = _analyze_loops(flow)]
    /\ UNCHANGED <<flow, results>>

NextSim ==
    \/ \E n \in Names, t \in SimSpecTypes : DraftAddElement(n, t)
    \/ \E n \in Names, slot \in AllSlots \ {"faultConnector"}, tgt \in Names :
          DraftSetConnector(n, slot, tgt)
    \/ \E n \in Names, tgt \in Names : DraftAddRule(n, tgt)
    \/ Simulate

SpecSim == Init /\ [][NextSim]_vars

(***************************************************************************)
(* C27  Validator and simulator agree on write-in-loop: for every document *)
(* and loop, the simulator's _has_dml_in_loop_body returns what the        *)
(* validator's walk of the loop's body returns, also when the body passes  *)
(* through actionCalls, waits or transforms elements.                      *)
(***************************************************************************)
C27_SimulatorAgrees ==
    \A L \in Loops(flow) :
        _has_dml_in_loop_body(flow, L) <=> dml_walk_of_loop(flow, L)

(***************************************************************************)
(* C28  The simulator's count is consistent with its detection: for every  *)
(* loop for which _has_dml_in_loop_body returns true,                      *)
(* _count_dml_in_loop_body returns at least 1, so every reported number of *)
(* DML statements added by a loop is positive.                             *)
(***************************************************************************)
C28_CountConsistent ==
    /\ \A L \in Loops(flow) :
          _has_dml_in_loop_body(flow, L) => _count_dml_in_loop_body(flow, L) >= 1
    /\ run.pc = "simulated"
       => \A e \in run.report : e.dml_in_loop >= 1 /\ e.total_dml_from_loop > 0


(***************************************************************************)
(* C29  The hook surfaces what the validator found: whenever validate()    *)
(* returns a non-empty critical_issues list, the hook's output lists at    *)
(* least one issue and never holds "No issues found!".                     *)
(***************************************************************************)
\* The hook process validated the document and printed its feedback.
HookPrintedFeedback ==
    /\ run.pc = "hook_exited"
    /\ run.printed[1].output # <<>>
    /\ run.printed[1].output[1] = "Flow Validation"

C29_HookSurfacesFindings ==
    (HookPrintedFeedback /\ critical_issues(validate(flow)) # <<>>)
    => /\ "Issues Found" \in Range(run.printed[1].output)
       /\ "No issues found!" \notin Range(run.printed[1].output)


(***************************************************************************)
(* C30  Visited-set invariant: at every call of the walker the visited set *)
(* it is passed holds exactly the names of the calls it is nested in (from *)
(* the body entry to its caller), never the loop's own name nor the exit   *)
(* target; the set grows by one name per recursion level, so the depth of  *)
(* the recursion never exceeds the number of distinct names in the flow    *)
(* plus one.                                                               *)
(***************************************************************************)
\* The names of the calls the i-th frame is nested in.
Ancestors(r, i) == {r.stack[j].current : j \in 1..(i - 1)}

\* The distinct names in the document: declared or targeted.
DistinctNames(fl) == DOMAIN fl.elements \cup all_target_references(fl)

C30_VisitedSetInvariant ==
    run.pc = "walk"
    => /\ \A i \in DOMAIN run.stack :
             /\ run.stack[i].current \notin Ancestors(run, i)
             /\ VisitedOf(run, i) \ {run.stack[i].current} = Ancestors(run, i)
             /\ Cardinality(VisitedOf(run, i)) = i
             /\ run.loop_name \notin VisitedOf(run, i)
             /\ run.exit_target \notin VisitedOf(run, i)
       /\ Len(run.stack) + 1 <= Cardinality(DistinctNames(flow)) + 1
       /\ run.calls >= Len(run.stack)

\* Two calls deep, the call made on a name that is already in the visited
\* set has just returned False.
C30_Witness ==
    /\ run.pc = "walk"
    /\ Len(run.stack) = 2
    /\ run.ret = "False"
    /\ Top.idx <= Len(Top.connectors)
    /\ Top.connectors[Top.idx] \in VisitedOf(run, 2)

====
